---- MODULE Spec2Model ----
(***************************************************************************)
(* Yugantar: text -> animated visualization.                               *)
(*                                                                         *)
(* The module models                                                       *)
(*   - HomePage (client): handleGenerate, streamInstructions (the          *)
(*     instruction stream decoder), generateVisualizationFromInstructions  *)
(*     (the compiler client), handleStopInstructions, the conversation     *)
(*     store;                                                              *)
(*   - HTMLRenderer (client): the sandboxed playback host, its step        *)
(*     controls and downloadAnimation (the canvas recorder);               *)
(*   - the route handlers POST /api/generate-visualization,                *)
(*     POST /api/generate-instructions and GET /api/prompt-history         *)
(*     (server);                                                           *)
(*   - the output sanitizer of the visualization route                     *)
(*     (stripMarkdownFences, isLikelyCompleteHtml) over generated outputs. *)
(*                                                                         *)
(* Texts are sequences of one-character strings.  The event loop is        *)
(* modelled as in the browser: every action is one task (an event handler  *)
(* or the continuation of an await); a continuation that a handler has     *)
(* made runnable (the rejection that abort() delivers) is a microtask and  *)
(* runs before any other task.  React state is taken as committed at the   *)
(* end of each task; the effect of HTMLRenderer on [html] runs as a step of *)
(* its own after the commit, and the iframe loads its document and         *)
(* delivers its load event in further steps.                               *)
(* A route handler is a sequence of steps, one per                         *)
(* await, and the handlers of different requests interleave at them.       *)
(*                                                                         *)
(* Two texts of the sources are earlier revisions of code that the model   *)
(* follows in its current revision, and are not modelled: the second       *)
(* HomePage after the current one (it posts the prompt straight to         *)
(* /api/generate-visualization and keeps a history of five documents), and *)
(* the second module text in generate-instructions/route.ts, which is the  *)
(* generate-visualization handler before the session check and the prompt  *)
(* log were added to it.                                                   *)
(***************************************************************************)
EXTENDS Integers, Sequences, FiniteSets, TLC

\* ------------------------------------------------------------------------
\* Bounds
\* ------------------------------------------------------------------------

\* number of generation requests one behaviour may start
MaxRequests == 2

\* number of instruction streams the decoder specification follows
MaxStreams == 1

\* number of step-control messages posted and not yet delivered
MaxPosted == 2

\* animState.totalFrames of a hosted document
MaxFrame == 2

\* load events of the iframe that are queued at one time
MaxLoadEvents == 1

\* ------------------------------------------------------------------------
\* Texts
\* ------------------------------------------------------------------------

Min(a, b) == IF a < b THEN a ELSE b

\* whitespace as String.prototype.trim and JSON see it (one representative)
IsWs(c) == c = " "

Digits == {"0", "1"}

RECURSIVE TrimStart(_)
TrimStart(s) ==
  IF s # <<>> /\ IsWs(Head(s)) THEN TrimStart(Tail(s)) ELSE s

RECURSIVE TrimEnd(_)
TrimEnd(s) ==
  IF s # <<>> /\ IsWs(s[Len(s)]) THEN TrimEnd(SubSeq(s, 1, Len(s) - 1)) ELSE s

\* String.prototype.trim
Trim(s) == TrimEnd(TrimStart(s))

\* ------------------------------------------------------------------------
\* JSON.parse on the modelled alphabet:
\*   value  := object | string | number
\*   object := { } | { member (, member)* }      member := string : value
\*   string := " chars "      number := 0 | 1 digit*
\* A parsed value is [t, v]; an object carries the map from keys to values
\* (a repeated key keeps its last value, as in JavaScript).
\* ------------------------------------------------------------------------

Undefined == [t |-> "undefined", v |-> <<>>]

ParseFail == [ok |-> FALSE, val |-> Undefined, pos |-> 0]

ParseOk(val, pos) == [ok |-> TRUE, val |-> val, pos |-> pos]

RECURSIVE SkipWs(_, _)
SkipWs(s, i) ==
  IF i <= Len(s) /\ IsWs(s[i]) THEN SkipWs(s, i + 1) ELSE i

\* index of the closing quote at or after i, 0 when the string is unterminated
RECURSIVE StrEnd(_, _)
StrEnd(s, i) ==
  IF i > Len(s) THEN 0
  ELSE IF s[i] = "\"" THEN i
  ELSE StrEnd(s, i + 1)

ParseString(s, i) ==
  LET e == StrEnd(s, i + 1) IN
    IF e = 0 THEN ParseFail
    ELSE ParseOk([t |-> "str", v |-> SubSeq(s, i + 1, e - 1)], e + 1)

RECURSIVE NumEnd(_, _)
NumEnd(s, i) ==
  IF i <= Len(s) /\ s[i] \in Digits THEN NumEnd(s, i + 1) ELSE i

ParseNumber(s, i) ==
  LET e == NumEnd(s, i)
      d == SubSeq(s, i, e - 1)
  IN  IF Len(d) > 1 /\ d[1] = "0" THEN ParseFail
      ELSE ParseOk([t |-> "num", v |-> d], e)

PutKey(m, k, val) ==
  [x \in (DOMAIN m) \cup {k} |-> IF x = k THEN val ELSE m[x]]

RECURSIVE ParseValue(_, _)
RECURSIVE ParseMembers(_, _, _)

ParseValue(s, i0) ==
  LET i == SkipWs(s, i0) IN
    IF i > Len(s) THEN ParseFail
    ELSE IF s[i] = "{" THEN
      LET j == SkipWs(s, i + 1) IN
        IF j <= Len(s) /\ s[j] = "}"
        THEN ParseOk([t |-> "obj", v |-> <<>>], j + 1)
        ELSE ParseMembers(s, j, <<>>)
    ELSE IF s[i] = "\"" THEN ParseString(s, i)
    ELSE IF s[i] \in Digits THEN ParseNumber(s, i)
    ELSE ParseFail

ParseMembers(s, i0, acc) ==
  LET i == SkipWs(s, i0) IN
    IF i > Len(s) \/ s[i] # "\"" THEN ParseFail
    ELSE
      LET k == ParseString(s, i) IN
        IF ~k.ok THEN ParseFail
        ELSE
          LET c == SkipWs(s, k.pos) IN
            IF c > Len(s) \/ s[c] # ":" THEN ParseFail
            ELSE
              LET val == ParseValue(s, c + 1) IN
                IF ~val.ok THEN ParseFail
                ELSE
                  LET acc2 == PutKey(acc, k.val.v, val.val)
                      d == SkipWs(s, val.pos)
                  IN  IF d > Len(s) THEN ParseFail
                      ELSE IF s[d] = "}"
                        THEN ParseOk([t |-> "obj", v |-> acc2], d + 1)
                      ELSE IF s[d] = ","
                        THEN ParseMembers(s, d + 1, acc2)
                      ELSE ParseFail

\* JSON.parse(text): one value, surrounded by optional whitespace, no more
JSONParse(s) ==
  LET r == ParseValue(s, 1) IN
    IF r.ok /\ SkipWs(s, r.pos) = Len(s) + 1
    THEN [ok |-> TRUE, val |-> r.val]
    ELSE [ok |-> FALSE, val |-> Undefined]

\* the key "narrativeGuide", written "n" in the modelled texts
NarrativeGuideKey == <<"n">>

\* parsed.narrativeGuide
GuideOf(val) ==
  IF val.t = "obj" /\ NarrativeGuideKey \in DOMAIN val.v
  THEN val.v[NarrativeGuideKey]
  ELSE Undefined

\* JavaScript truthiness of a parsed value
Truthy(val) ==
  CASE val.t = "obj" -> TRUE
    [] val.t = "str" -> val.v # <<>>
    [] val.t = "num" -> val.v # <<"0">>
    [] OTHER -> FALSE

\* accumulatedText.match(/\{[\s\S]*\}/): from the first "{" to the last "}"
\* after it; <<>> when there is no match
FirstBrace(s) ==
  IF \E i \in 1..Len(s) : s[i] = "{"
  THEN CHOOSE i \in 1..Len(s) : s[i] = "{" /\ \A j \in 1..(i - 1) : s[j] # "{"
  ELSE 0

LastBrace(s) ==
  IF \E i \in 1..Len(s) : s[i] = "}"
  THEN CHOOSE i \in 1..Len(s) : s[i] = "}" /\ \A j \in (i + 1)..Len(s) : s[j] # "}"
  ELSE 0

JsonMatch(s) ==
  LET f == FirstBrace(s)
      l == LastBrace(s)
  IN  IF f # 0 /\ l > f THEN SubSeq(s, f, l) ELSE <<>>

\* a chunk handler that surfaces the matched text without parsing it
IncrementalGuideUnvalidated(acc) ==
  LET m == JsonMatch(acc) IN
    IF m = <<>> THEN Undefined ELSE [t |-> "str", v |-> m]

\* the guide the chunk handler surfaces for a buffer: the truthy
\* narrativeGuide of the parsed match, Undefined when nothing is surfaced
IncrementalGuide(acc) ==
  LET m == JsonMatch(acc) IN
    IF m = <<>> THEN Undefined
    ELSE LET p == JSONParse(m) IN
      IF p.ok /\ Truthy(GuideOf(p.val)) THEN GuideOf(p.val) ELSE Undefined

\* the guide of the final parse over the full buffer
FinalGuide(acc) ==
  LET p == JSONParse(acc) IN
    IF p.ok /\ Truthy(GuideOf(p.val)) THEN GuideOf(p.val) ELSE Undefined

\* narrativeGuideData of generateVisualizationFromInstructions
NarrativeGuideData(instructions) ==
  LET p == JSONParse(Trim(instructions)) IN
    IF p.ok /\ Truthy(GuideOf(p.val)) THEN GuideOf(p.val) ELSE Undefined

\* a decoder without {stream: true}: a lead byte at the end of a chunk is
\* flushed as "?" instead of being kept
RECURSIVE DecodeNoStream(_, _, _)
DecodeNoStream(pending, bytes, out) ==
  IF bytes = <<>> THEN [out |-> out, pending |-> <<>>]
  ELSE
    LET b == Head(bytes) IN
      IF b = "e1" THEN
        IF Len(bytes) > 1 /\ bytes[2] = "e2"
        THEN DecodeNoStream(<<>>, Tail(Tail(bytes)), Append(out, "e"))
        ELSE DecodeNoStream(<<>>, Tail(bytes), Append(out, "?"))
      ELSE IF b = "e2" THEN DecodeNoStream(<<>>, Tail(bytes), Append(out, "?"))
      ELSE DecodeNoStream(<<>>, Tail(bytes), Append(out, b))

\* TextDecoder.decode(value, {stream: true}) over bytes: every modelled
\* character is one byte except "e", which is the two bytes "e1" "e2"; a
\* lead byte at the end of a chunk is kept for the next chunk, a broken
\* sequence decodes to "?" (U+FFFD)
RECURSIVE Decode(_, _, _)
Decode(pending, bytes, out) ==
  IF bytes = <<>> THEN [out |-> out, pending |-> pending]
  ELSE
    LET b == Head(bytes) IN
      IF pending # <<>> THEN
        IF b = "e2" THEN Decode(<<>>, Tail(bytes), Append(out, "e"))
        ELSE Decode(<<>>, bytes, Append(out, "?"))
      ELSE IF b = "e1" THEN Decode(<<"e1">>, Tail(bytes), out)
      ELSE IF b = "e2" THEN Decode(<<>>, Tail(bytes), Append(out, "?"))
      ELSE Decode(<<>>, Tail(bytes), Append(out, b))


\* ------------------------------------------------------------------------
\* Inputs
\* ------------------------------------------------------------------------

\* prompts the user may type: none, a short one, and one with leading
\* whitespace that is longer than a conversation title;
\* EXAMPLE_PROMPTS are the ones offered as chips
Prompts == {<<>>, <<"a">>, <<" ">> \o [i \in 1..51 |-> "b"]}

EXAMPLE_PROMPTS == {<<"a">>}

\* bodies the instruction stream may deliver, as bytes
\*   {"n":{"e":1}}      a document with a narrativeGuide; "e" is two bytes
DocGuide ==
  <<"{", "\"", "n", "\"", ":", "{", "\"", "e1", "e2", "\"", ":", "1", "}", "}">>

\*   {"a":1}            a document without narrativeGuide
DocNoGuide == <<"{", "\"", "a", "\"", ":", "1", "}">>

\*    {"n":{}}          a document padded with whitespace
DocPadded == <<" ", "{", "\"", "n", "\"", ":", "{", "}", "}", " ">>

\*   #{"n":1}#          an object wrapped in fences / commentary
Fenced == <<"#", "{", "\"", "n", "\"", ":", "1", "}", "#">>

Empty == <<>>

Blank == <<" ">>

WellFormedDocs == {DocGuide, DocNoGuide, DocPadded}

\* with them a falsy narrativeGuide, {"n":0}, a truncated document, {"n":{ ,
\* and an object followed by more braces, {"n":1}{}
StreamBodies ==
  WellFormedDocs \cup
    { Fenced, Empty, Blank,
      <<"{", "\"", "n", "\"", ":", "0", "}">>,
      <<"{", "\"", "n", "\"", ":", "{">>,
      <<"{", "\"", "n", "\"", ":", "1", "}", "{", "}">> }

\* the sizes a chunk may have: one byte up to a whole body
ChunkSizes == UNION {1..Len(b) : b \in StreamBodies}

\* the bodies the page specification draws from
\* the characters a body decodes to when it is decoded in one piece
DecodeAll(bytes) == Decode(<<>>, bytes, <<>>).out

NullStr == "null"

NoErrorField == "undefined"

NullId == 0

ErrNoInstructions == "No animation instructions generated."

ErrStream == "Failed to generate animation instructions. Please try again."

WarnIncomplete ==
  "Generated output may not be a complete HTML document. Please validate before use."

ErrRoute == "Failed to generate visualization HTML."

\* what the POST to /api/generate-visualization may come back with
CompileOutcomes ==
  { [kind |-> "response", ok |-> TRUE, code |-> "H1", error |-> NoErrorField],
    [kind |-> "response", ok |-> TRUE, code |-> "H2", error |-> WarnIncomplete],
    [kind |-> "response", ok |-> FALSE, code |-> "", error |-> ErrRoute],
    [kind |-> "response", ok |-> FALSE, code |-> "", error |-> NoErrorField],
    [kind |-> "throw", ok |-> FALSE, code |-> "", error |-> NoErrorField] }

\* ------------------------------------------------------------------------
\* State
\* ------------------------------------------------------------------------

VARIABLES
  \* HomePage
  inputPrompt,               \* useState("")
  isLoading,                 \* useState(false)
  isGeneratingInstructions,  \* useState(false)
  generatedHTML,             \* useState(null)
  apiWarning,                \* useState(null)
  error,                     \* useState(null)
  animationInstructions,     \* useState("")
  narrativeGuide,            \* useState(null)
  conversations,             \* useState([])
  currentConversationId,     \* useState(null)
  abortControllerRef,        \* useRef(null): the request whose controller it holds
  req,                       \* the calls of streamInstructions: position, locals, closure
  nextReq,                   \* number of calls of streamInstructions so far
  posts,                     \* POSTs to /api/generate-visualization awaiting a response
  now,                       \* Date.now()
  \* HTMLRenderer
  html,                      \* the html prop
  isIframeLoading,           \* useState(false)
  effectPending,             \* the effect on [html] of the last commit has not run
  navigating,                \* the iframe is loading its srcDoc
  loadEvents,                \* load events of the iframe queued, not yet dispatched
  iframeDoc,                 \* the document loaded in the iframe (contentWindow)
  currentFrame,              \* animState.currentFrame of the hosted document
  posted,                    \* messages posted to the iframe window, not yet delivered
  parentState,               \* who last wrote the parent page's state
  anim,                      \* animState.isPlaying of the hosted document, and
                             \* whether a frame it requested is pending (animationId)
  isDownloading,             \* useState(false)
  dl,                        \* the call of downloadAnimation: position, locals, handlers
  alerted,                   \* the message of the last alert(), NullStr before any
  \* route handlers
  srv,                       \* the running route handlers: position, request, locals
  served,                    \* number of POST requests received so far
  promptLog,                 \* the rows of prisma.promptLog, oldest first
  san                        \* one output of the generator on its way through
                             \* stripMarkdownFences and isLikelyCompleteHtml

pageVars ==
  <<inputPrompt, isLoading, isGeneratingInstructions, generatedHTML, apiWarning,
    error, animationInstructions, narrativeGuide, conversations,
    currentConversationId, abortControllerRef, req, nextReq, posts, now>>

hostVars ==
  <<html, isIframeLoading, effectPending, navigating, loadEvents, iframeDoc,
    currentFrame, posted, parentState, anim>>

recVars == <<isDownloading, dl, alerted>>

routeVars == <<srv, served, promptLog, san>>

vars == <<pageVars, hostVars, recVars, routeVars>>

\* shared UI / result state of HomePage
uiState ==
  <<inputPrompt, isLoading, isGeneratingInstructions, generatedHTML, apiWarning,
    error, animationInstructions, narrativeGuide, conversations,
    currentConversationId>>

Requests == 1..MaxRequests

IdleRequest ==
  [pc |-> "idle", aborted |-> FALSE, body |-> <<>>, offset |-> 0,
   pending |-> <<>>, accumulatedText |-> <<>>, surfaced |-> FALSE, finalParse |-> "none",
   inputPrompt |-> <<>>, currentConversationId |-> NullId,
   superseded |-> FALSE]

\* a call of streamInstructions that has returned: its locals are gone
Finished(q) ==
  [q EXCEPT !.pc = "done", !.body = <<>>, !.offset = 0, !.pending = <<>>,
            !.accumulatedText = <<>>]


\* a stream decode is in flight
Streaming(r) == req[r].pc \in {"fetch", "read", "rejected"}

\* a compiler call is in flight
Compiling(r) == req[r].pc = "compile"

InFlight(r) == Streaming(r) \/ Compiling(r)

\* a continuation made runnable by the running task runs before the next task
NoMicrotask == \A r \in Requests : req[r].pc # "rejected"


\* ------------------------------------------------------------------------
\* HomePage: user actions
\* ------------------------------------------------------------------------

\* a new conversation, a restored history entry or a newer generation
\* supersedes what is in flight (history field of req, read by no action)
Supersede(q) ==
  [r \in Requests |-> IF InFlight(r) THEN [q[r] EXCEPT !.superseded = TRUE] ELSE q[r]]

\* <Textarea onChange>
TypePrompt(p) ==
  /\ NoMicrotask
  /\ p # inputPrompt
  /\ inputPrompt' = p
  /\ UNCHANGED <<isLoading, isGeneratingInstructions, generatedHTML, apiWarning,
                 error, animationInstructions, narrativeGuide, conversations,
                 currentConversationId, abortControllerRef, req, nextReq, posts,
                 now>>
  /\ UNCHANGED <<hostVars, recVars, routeVars>>

\* handleUseExample
HandleUseExample(example) ==
  /\ NoMicrotask
  /\ inputPrompt' = example
  /\ error' = NullStr
  /\ <<inputPrompt', error'>> # <<inputPrompt, error>>
  /\ UNCHANGED <<isLoading, isGeneratingInstructions, generatedHTML, apiWarning,
                 animationInstructions, narrativeGuide, conversations,
                 currentConversationId, abortControllerRef, req, nextReq, posts,
                 now>>
  /\ UNCHANGED <<hostVars, recVars, routeVars>>

\* an early return that forgets the compiler call in flight
HandleGenerateGuardNoLoading ==
  Trim(inputPrompt) = <<>> \/ isGeneratingInstructions

\* the early return of handleGenerate
HandleGenerateGuard ==
  Trim(inputPrompt) = <<>> \/ isLoading \/ isGeneratingInstructions

\* handleGenerate (Generate, Regenerate, Ctrl+Enter) up to the first await
\* of streamInstructions
HandleGenerate ==
  /\ NoMicrotask
  /\ nextReq < MaxRequests
  /\ IF HandleGenerateGuard
     THEN UNCHANGED pageVars
     ELSE LET r == nextReq + 1 IN
       /\ error' = NullStr
       /\ apiWarning' = NullStr
       /\ generatedHTML' = NullStr
       /\ animationInstructions' = <<>>
       /\ narrativeGuide' = Undefined
       /\ isGeneratingInstructions' = TRUE
       /\ abortControllerRef' = r
       /\ nextReq' = r
       /\ req' = [Supersede(req) EXCEPT ![r] =
                    [IdleRequest EXCEPT !.pc = "fetch",
                                        !.inputPrompt = inputPrompt,
                                        !.currentConversationId = currentConversationId]]
       /\ UNCHANGED <<inputPrompt, isLoading, conversations,
                      currentConversationId, posts, now>>
  /\ UNCHANGED <<hostVars, recVars, routeVars>>

\* a stop whose controller is not wired to the fetch: nothing is rejected
HandleStopInstructionsNoSignal ==
  /\ NoMicrotask
  /\ isGeneratingInstructions
  /\ IF abortControllerRef # NullId
     THEN /\ req' = [req EXCEPT ![abortControllerRef] = [@ EXCEPT !.aborted = TRUE]]
          /\ isGeneratingInstructions' = FALSE
     ELSE UNCHANGED <<req, isGeneratingInstructions>>
  /\ UNCHANGED <<inputPrompt, isLoading, generatedHTML, apiWarning, error,
                 animationInstructions, narrativeGuide, conversations,
                 currentConversationId, abortControllerRef, nextReq, posts, now>>
  /\ UNCHANGED <<hostVars, recVars, routeVars>>

\* handleStopInstructions; its button is rendered while
\* isGeneratingInstructions.  abort() rejects the pending fetch / read.
HandleStopInstructions ==
  /\ NoMicrotask
  /\ isGeneratingInstructions
  /\ IF abortControllerRef # NullId
     THEN /\ req' = [req EXCEPT ![abortControllerRef] =
                       [@ EXCEPT !.aborted = TRUE,
                                 !.pc = IF @ \in {"fetch", "read"}
                                        THEN "rejected" ELSE @]]
          /\ isGeneratingInstructions' = FALSE
     ELSE UNCHANGED <<req, isGeneratingInstructions>>
  /\ UNCHANGED <<inputPrompt, isLoading, generatedHTML, apiWarning, error,
                 animationInstructions, narrativeGuide, conversations,
                 currentConversationId, abortControllerRef, nextReq, posts, now>>
  /\ UNCHANGED <<hostVars, recVars, routeVars>>

\* startNewConversation; its button is rendered while a conversation is current
StartNewConversation ==
  /\ NoMicrotask
  /\ currentConversationId # NullId
  /\ currentConversationId' = NullId
  /\ inputPrompt' = <<>>
  /\ generatedHTML' = NullStr
  /\ error' = NullStr
  /\ apiWarning' = NullStr
  /\ req' = Supersede(req)
  /\ UNCHANGED <<isLoading, isGeneratingInstructions, animationInstructions,
                 narrativeGuide, conversations, abortControllerRef, nextReq,
                 posts, now>>
  /\ UNCHANGED <<hostVars, recVars, routeVars>>

\* onClick of a history card
SelectConversation(i) ==
  /\ NoMicrotask
  /\ i \in 1..Len(conversations)
  /\ LET conv == conversations[i] IN
       /\ currentConversationId' = conv.id
       /\ IF Len(conv.messages) > 0
          THEN LET lastMessage == conv.messages[Len(conv.messages)] IN
                 /\ inputPrompt' = lastMessage.prompt
                 /\ generatedHTML' = lastMessage.html
          ELSE UNCHANGED <<inputPrompt, generatedHTML>>
  /\ req' = Supersede(req)
  /\ <<currentConversationId', inputPrompt', generatedHTML', req'>>
       # <<currentConversationId, inputPrompt, generatedHTML, req>>
  /\ UNCHANGED <<isLoading, isGeneratingInstructions, apiWarning, error,
                 animationInstructions, narrativeGuide, conversations,
                 abortControllerRef, nextReq, posts, now>>
  /\ UNCHANGED <<hostVars, recVars, routeVars>>

\* ------------------------------------------------------------------------
\* HomePage: streamInstructions
\* ------------------------------------------------------------------------

\* the fetch of /api/generate-instructions resolves with a readable body
FetchResponse(r, body) ==
  /\ NoMicrotask
  /\ req[r].pc = "fetch"
  /\ req' = [req EXCEPT ![r] = [@ EXCEPT !.pc = "read", !.body = body]]
  /\ UNCHANGED <<inputPrompt, isLoading, isGeneratingInstructions, generatedHTML,
                 apiWarning, error, animationInstructions, narrativeGuide,
                 conversations, currentConversationId, abortControllerRef,
                 nextReq, posts, now>>
  /\ UNCHANGED <<hostVars, recVars, routeVars>>

\* a catch block that reports the abort like any other failure
StreamCatchAbortAsError(r, isAbortError) ==
  /\ error' = ErrStream
  /\ isGeneratingInstructions' = FALSE
  /\ abortControllerRef' = NullId
  /\ req' = [req EXCEPT ![r] = Finished(@)]

\* the catch block of streamInstructions, then its finally block
StreamCatch(r, isAbortError) ==
  /\ IF isAbortError
     THEN UNCHANGED <<error, isGeneratingInstructions>>
     ELSE /\ error' = ErrStream
          /\ isGeneratingInstructions' = FALSE
  /\ abortControllerRef' = NullId
  /\ req' = [req EXCEPT ![r] = Finished(@)]

\* the fetch rejects, the response is not ok or has no body, or a read fails
StreamFails(r) ==
  /\ NoMicrotask
  /\ req[r].pc \in {"fetch", "read"}
  /\ StreamCatch(r, FALSE)
  /\ UNCHANGED <<inputPrompt, isLoading, generatedHTML, apiWarning,
                 animationInstructions, narrativeGuide, conversations,
                 currentConversationId, nextReq, posts, now>>
  /\ UNCHANGED <<hostVars, recVars, routeVars>>

\* the rejection delivered by abort(): catch (AbortError) and finally
AbortContinuation(r) ==
  /\ req[r].pc = "rejected"
  /\ StreamCatch(r, TRUE)
  /\ UNCHANGED <<inputPrompt, isLoading, generatedHTML, apiWarning,
                 animationInstructions, narrativeGuide, conversations,
                 currentConversationId, nextReq, posts, now>>
  /\ UNCHANGED <<hostVars, recVars, routeVars>>

\* one iteration of the read loop: a chunk of k bytes arrives
ReadChunk(r, k) ==
  /\ NoMicrotask
  /\ req[r].pc = "read"
  /\ k \in 1..(Len(req[r].body) - req[r].offset)
  /\ LET value == SubSeq(req[r].body, req[r].offset + 1, req[r].offset + k)
         dec == Decode(req[r].pending, value, <<>>)
         acc == req[r].accumulatedText \o dec.out
         guide == IncrementalGuide(acc)
     IN  /\ animationInstructions' = acc
         /\ narrativeGuide' = IF guide # Undefined THEN guide ELSE narrativeGuide
         /\ req' = [req EXCEPT ![r] =
                      [@ EXCEPT !.offset = @ + k,
                                !.pending = dec.pending,
                                !.accumulatedText = acc,
                                !.surfaced = @ \/ guide # Undefined]]
  /\ UNCHANGED <<inputPrompt, isLoading, isGeneratingInstructions, generatedHTML,
                 apiWarning, error, conversations, currentConversationId,
                 abortControllerRef, nextReq, posts, now>>
  /\ UNCHANGED <<hostVars, recVars, routeVars>>

\* a guard that also refuses instructions that are not JSON
ShouldCompileStrict(instructions) ==
  Trim(instructions) # <<>> /\ JSONParse(Trim(instructions)).ok

\* the guard of generateVisualizationFromInstructions: empty instructions
\* are reported, not compiled
ShouldCompile(instructions) == Trim(instructions) # <<>>

\* reader.read() reports done: the final parse, then
\* generateVisualizationFromInstructions up to its await
ReadDone(r) ==
  /\ NoMicrotask
  /\ req[r].pc = "read"
  /\ req[r].offset = Len(req[r].body)
  /\ LET acc == req[r].accumulatedText
         guide == FinalGuide(acc)
         parse == IF JSONParse(acc).ok THEN "ok" ELSE "failed"
     IN  /\ isGeneratingInstructions' = FALSE
         /\ narrativeGuide' = IF guide # Undefined THEN guide ELSE narrativeGuide
         /\ IF ~ShouldCompile(acc)
            THEN /\ error' = ErrNoInstructions
                 /\ abortControllerRef' = NullId
                 /\ req' = [req EXCEPT ![r] =
                              Finished([@ EXCEPT !.finalParse = parse])]
                 /\ UNCHANGED <<isLoading, posts>>
            ELSE /\ isLoading' = TRUE
                 /\ posts' = Append(posts,
                      [req |-> r, instructions |-> Trim(acc),
                       narrativeGuide |-> NarrativeGuideData(acc)])
                 /\ req' = [req EXCEPT ![r] =
                              [@ EXCEPT !.pc = "compile", !.finalParse = parse]]
                 /\ UNCHANGED <<error, abortControllerRef>>
  /\ UNCHANGED <<inputPrompt, generatedHTML, apiWarning, animationInstructions,
                 conversations, currentConversationId, nextReq, now>>
  /\ UNCHANGED <<hostVars, recVars, routeVars>>

\* ------------------------------------------------------------------------
\* HomePage: generateVisualizationFromInstructions after its await
\* ------------------------------------------------------------------------

\* a title that is not cut
TitleWhole(prompt) == Trim(prompt)

\* inputPrompt.trim().slice(0, 50)
Title(prompt) == SubSeq(Trim(prompt), 1, Min(50, Len(Trim(prompt))))

\* the updater passed to setConversations; conversationId and prompt are the
\* values the callback closed over
AddMessage(prev, conversationId, prompt, code, finishedAt) ==
  LET message == [prompt |-> Trim(prompt), html |-> code, createdAt |-> finishedAt] IN
    IF conversationId # NullId
    THEN [i \in 1..Len(prev) |->
            IF prev[i].id = conversationId
            THEN [prev[i] EXCEPT !.messages = Append(@, message)]
            ELSE prev[i]]
    ELSE <<[id |-> finishedAt, title |-> Title(prompt), createdAt |-> finishedAt,
            messages |-> <<message>>]>> \o prev

\* the response of /api/generate-visualization arrives (or the fetch throws);
\* then the finally blocks of both callbacks
CompileResponse(r, out) ==
  /\ NoMicrotask
  /\ req[r].pc = "compile"
  /\ IF out.kind = "throw"
     THEN /\ generatedHTML' = NullStr
          /\ error' =
               "Unexpected error while generating visualization. Please try again."
          /\ UNCHANGED <<apiWarning, conversations, currentConversationId, now>>
     ELSE IF ~out.ok \/ out.code = ""
     THEN /\ generatedHTML' = NullStr
          /\ error' = IF out.error \in {NoErrorField, ""}
                      THEN "Failed to generate visualization."
                      ELSE out.error
          /\ UNCHANGED <<apiWarning, conversations, currentConversationId, now>>
     ELSE /\ generatedHTML' = out.code
          /\ apiWarning' = IF out.error = NoErrorField THEN NullStr ELSE out.error
          /\ conversations' = AddMessage(conversations, req[r].currentConversationId,
                                         req[r].inputPrompt, out.code, now)
          /\ currentConversationId' =
               IF req[r].currentConversationId = NullId THEN now
               ELSE currentConversationId
          /\ now' = now + 1
          /\ UNCHANGED error
  /\ isLoading' = FALSE
  /\ abortControllerRef' = NullId
  /\ req' = [req EXCEPT ![r] = Finished(@)]
  /\ posts' = SelectSeq(posts, LAMBDA m : m.req # r)
  /\ UNCHANGED <<inputPrompt, isGeneratingInstructions, animationInstructions,
                 narrativeGuide, nextReq>>
  /\ UNCHANGED <<hostVars, recVars, routeVars>>

PageInit ==
  /\ inputPrompt = <<>>
  /\ isLoading = FALSE
  /\ isGeneratingInstructions = FALSE
  /\ generatedHTML = NullStr
  /\ apiWarning = NullStr
  /\ error = NullStr
  /\ animationInstructions = <<>>
  /\ narrativeGuide = Undefined
  /\ conversations = <<>>
  /\ currentConversationId = NullId
  /\ abortControllerRef = NullId
  /\ req = [r \in Requests |-> IdleRequest]
  /\ nextReq = 0
  /\ posts = <<>>
  /\ now = 1


\* ------------------------------------------------------------------------
\* HTMLRenderer: the sandboxed playback host
\* ------------------------------------------------------------------------

\* the sandbox attribute of the iframe
SandboxTokens == {"allow-scripts", "allow-same-origin"}

\* generated documents: what window.stepForward, window.stepBackward,
\* window.resetAnimation and window.playAnimation are ("defined" as the
\* generator is told to define them, "absent", or "throws" when calling it
\* raises) and whether the document listens for the step messages
Docs ==
  { [name |-> "full", stepForward |-> "defined", stepBackward |-> "defined",
     resetAnimation |-> "defined", playAnimation |-> "defined",
     listens |-> TRUE],
    [name |-> "noEntry", stepForward |-> "absent", stepBackward |-> "absent",
     resetAnimation |-> "absent", playAnimation |-> "absent",
     listens |-> TRUE],
    [name |-> "throwing", stepForward |-> "throws", stepBackward |-> "throws",
     resetAnimation |-> "throws", playAnimation |-> "defined",
     listens |-> TRUE],
    [name |-> "playThrows", stepForward |-> "defined", stepBackward |-> "defined",
     resetAnimation |-> "defined", playAnimation |-> "throws",
     listens |-> TRUE],
    [name |-> "bare", stepForward |-> "absent", stepBackward |-> "absent",
     resetAnimation |-> "absent", playAnimation |-> "absent",
     listens |-> FALSE] }

\* html = null
NoHtml ==
  [name |-> "null", stepForward |-> "absent", stepBackward |-> "absent",
   resetAnimation |-> "absent", playAnimation |-> "absent", listens |-> FALSE]

\* the initial about:blank document of a mounted iframe
BlankDoc ==
  [name |-> "about:blank", stepForward |-> "absent", stepBackward |-> "absent",
   resetAnimation |-> "absent", playAnimation |-> "absent", listens |-> FALSE]

\* animate() of the hosted document, on s = [frame, anim]: nothing when the
\* animation is not playing; else the frame is drawn and incremented, and
\* either the next frame is requested or, at totalFrames (MaxFrame), the
\* animation stops there
Animate(s) ==
  IF ~s.anim.isPlaying THEN s
  ELSE IF s.frame + 1 < MaxFrame
  THEN [frame |-> s.frame + 1, anim |-> [isPlaying |-> TRUE, animationId |-> TRUE]]
  ELSE [frame |-> MaxFrame, anim |-> [isPlaying |-> FALSE, animationId |-> FALSE]]

\* what the hosted document's own stepForward / stepBackward do
DocStep(frame, delta) ==
  IF frame + delta < 0 THEN 0
  ELSE IF frame + delta > MaxFrame THEN MaxFrame
  ELSE frame + delta

\* the parent renders HTMLRenderer with another html prop and React commits
\* it: the iframe is mounted while html is not null, and a new srcDoc makes
\* it load that document, leaving the load in progress.  The window keeps
\* the document it has until the new one is loaded.  A load event that is
\* queued stays queued unless the iframe is unmounted.  The effect on [html]
\* runs later; an effect still pending from the commit before is run first.
\* (With html null the effect does nothing and is not followed.)
AssignHtml(h) ==
  /\ h # html
  /\ html' = h
  /\ isIframeLoading' = IF effectPending /\ html # NoHtml THEN TRUE
                        ELSE isIframeLoading
  /\ effectPending' = (h # NoHtml)
  /\ navigating' = (h # NoHtml)
  /\ loadEvents' = IF h = NoHtml \/ html = NoHtml THEN 0 ELSE loadEvents
  /\ iframeDoc' = IF h = NoHtml THEN NoHtml
                  ELSE IF html = NoHtml THEN BlankDoc
                  ELSE iframeDoc
  /\ posted' = IF h = NoHtml THEN <<>> ELSE posted
  /\ anim' = IF h = NoHtml THEN [isPlaying |-> FALSE, animationId |-> FALSE]
             ELSE anim
  /\ UNCHANGED <<currentFrame, parentState>>
  /\ UNCHANGED <<pageVars, recVars, routeVars>>

\* the effect on [html]: if (html) setIsIframeLoading(true)
HtmlEffect ==
  /\ effectPending
  /\ effectPending' = FALSE
  /\ isIframeLoading' = IF html # NoHtml THEN TRUE ELSE isIframeLoading
  /\ UNCHANGED <<html, navigating, loadEvents, iframeDoc, currentFrame, posted,
                 parentState, anim>>
  /\ UNCHANGED <<pageVars, recVars, routeVars>>

\* the iframe has loaded its srcDoc: the window holds the new document, whose
\* script has declared animState ({isPlaying: true, currentFrame: 0}) and
\* requested no frame, and the load event of the iframe is queued.  A
\* message posted to the window of the document that was replaced is not
\* delivered to the new one
DocumentLoads ==
  /\ html # NoHtml
  /\ navigating
  /\ loadEvents < MaxLoadEvents
  /\ navigating' = FALSE
  /\ loadEvents' = loadEvents + 1
  /\ iframeDoc' = html
  /\ currentFrame' = 0
  /\ posted' = <<>>
  /\ anim' = [isPlaying |-> TRUE, animationId |-> FALSE]
  /\ UNCHANGED <<html, isIframeLoading, effectPending, parentState>>
  /\ UNCHANGED <<pageVars, recVars, routeVars>>

\* onLoad of the iframe, for a load event that is queued: the handler does
\* not look at the document the event is of, nor at isIframeLoading
\* (adjustHeight sets styles only)
IframeLoad ==
  /\ html # NoHtml
  /\ loadEvents > 0
  /\ loadEvents' = loadEvents - 1
  /\ isIframeLoading' = FALSE
  /\ UNCHANGED <<html, effectPending, navigating, iframeDoc, currentFrame,
                 posted, parentState, anim>>
  /\ UNCHANGED <<pageVars, recVars, routeVars>>

\* may the host reach contentDocument (the frame is same-origin)
SameOrigin == "allow-same-origin" \in SandboxTokens

\* the shared body of stepForward and stepBackward: entry is what the hosted
\* window defines under that name; the hosted function stops the animation
\* and cancels the frame it had requested
StepControl(entry, delta, message) ==
  /\ html # NoHtml
  /\ IF ~SameOrigin
     THEN UNCHANGED <<currentFrame, posted, anim>>
     ELSE CASE entry = "defined" ->
                 /\ currentFrame' = DocStep(currentFrame, delta)
                 /\ anim' = [isPlaying |-> FALSE, animationId |-> FALSE]
                 /\ UNCHANGED posted
            [] entry = "throws" ->
                 /\ Len(posted) < MaxPosted
                 /\ posted' = Append(posted, message)
                 /\ UNCHANGED <<currentFrame, anim>>
            [] OTHER -> UNCHANGED <<currentFrame, posted, anim>>
  /\ UNCHANGED <<html, isIframeLoading, effectPending, navigating, loadEvents,
                 iframeDoc, parentState>>
  /\ UNCHANGED <<pageVars, recVars, routeVars>>

\* stepForward
StepForward == StepControl(iframeDoc.stepForward, 1, "stepForward")

\* stepBackward
StepBackward == StepControl(iframeDoc.stepBackward, -1, "stepBackward")

\* the hosted window receives a posted message
DeliverMessage ==
  /\ posted # <<>>
  /\ posted' = Tail(posted)
  /\ currentFrame' =
       IF iframeDoc.listens
       THEN DocStep(currentFrame, IF Head(posted) = "stepForward" THEN 1 ELSE -1)
       ELSE currentFrame
  /\ anim' = IF iframeDoc.listens
             THEN [isPlaying |-> FALSE, animationId |-> FALSE]
             ELSE anim
  /\ UNCHANGED <<html, isIframeLoading, effectPending, navigating, loadEvents,
                 iframeDoc, parentState>>
  /\ UNCHANGED <<pageVars, recVars, routeVars>>

\* script of the hosted document reaches for window.parent (document,
\* storage); the sandbox decides whether it gets there
HostedScriptTouchesParent ==
  /\ iframeDoc \in Docs
  /\ "allow-scripts" \in SandboxTokens
  /\ parentState' = IF SameOrigin THEN "hosted" ELSE parentState
  /\ parentState' # parentState
  /\ UNCHANGED <<html, isIframeLoading, effectPending, navigating, loadEvents,
                 iframeDoc, currentFrame, posted, anim>>
  /\ UNCHANGED <<pageVars, recVars, routeVars>>

HostInit ==
  /\ html = NoHtml
  /\ isIframeLoading = FALSE
  /\ effectPending = FALSE
  /\ navigating = FALSE
  /\ loadEvents = 0
  /\ iframeDoc = NoHtml
  /\ currentFrame = 0
  /\ posted = <<>>
  /\ parentState = "host"
  /\ anim = [isPlaying |-> FALSE, animationId |-> FALSE]

\* ------------------------------------------------------------------------
\* HTMLRenderer: downloadAnimation
\* ------------------------------------------------------------------------

ErrNoCodec == "No supported video codec found"

\* mimeTypes, in the order of preference
MimeTypes == <<"video/webm;codecs=vp9", "video/webm;codecs=vp8", "video/webm">>

\* selectedMimeType, the loop over mimeTypes from index i: the first
\* supported one, "" when there is none
RECURSIVE FirstSupported(_, _)
FirstSupported(i, supported) ==
  IF i > Len(MimeTypes) THEN ""
  ELSE IF MimeTypes[i] \in supported THEN MimeTypes[i]
  ELSE FirstSupported(i + 1, supported)

\* what MediaRecorder.isTypeSupported may accept in a browser
SupportedSets ==
  { {}, {"video/webm"}, {"video/webm;codecs=vp8", "video/webm"},
    {"video/webm;codecs=vp9", "video/webm;codecs=vp8", "video/webm"} }

\* iframeDocument.querySelector("canvas#animationCanvas") finds a canvas
HasCanvas(doc) == doc.name \in {"full", "noEntry", "throwing", "playThrows"}

\* what recorder.requestData() may do, and the size of a recorded blob
FlushResults == {"throws", "empty", "data"}

BlobSizes == {0, 1}

\* blob.size of new Blob(chunks)
RECURSIVE BlobSize(_)
BlobSize(chunks) ==
  IF chunks = <<>> THEN 0 ELSE Head(chunks) + BlobSize(Tail(chunks))

\* calls of downloadAnimation that are unfinished at one time
MaxCalls == 1

\* the calls of downloadAnimation that are followed; a call that is
\* finished leaves its place to a later one
Calls == 1..MaxCalls

\* no call of downloadAnimation has been made
IdleDownload ==
  [pc |-> "idle", doc |-> NoHtml, stream |-> "none", recorder |-> "none",
   mimeType |-> "", timer |-> "none", chunks |-> <<>>, events |-> <<>>,
   calls |-> <<>>, saved |-> FALSE, outcome |-> "none", detached |-> FALSE,
   warned |-> FALSE]

\* setIsDownloading(v) of call c: a state update of an unmounted instance is
\* dropped
SetIsDownloading(c, v) == IF dl[c].detached THEN isDownloading ELSE v

\* clearTimeout(stopTimeout)
ClearTimeout(timer) == IF timer = "pending" THEN "cleared" ELSE timer

\* downloadAnimation from captureStream on, for the call c with the locals d
\* whose instance has isDownloading = downloading: the choice of the
\* encoding, new MediaRecorder, start, setTimeout, the handlers; or the catch
RecordingStarts(c, d, supported, downloading) ==
  IF FirstSupported(1, supported) = ""
  THEN /\ dl' = [dl EXCEPT ![c] = [d EXCEPT !.pc = "done", !.stream = "live",
                                            !.outcome = "noCodec"]]
       /\ alerted' = ErrNoCodec
       /\ isDownloading' = IF d.detached THEN downloading ELSE FALSE
  ELSE /\ dl' = [dl EXCEPT ![c] =
                   [d EXCEPT !.pc = "recording", !.stream = "live",
                             !.mimeType = FirstSupported(1, supported),
                             !.recorder = "recording", !.calls = <<"start">>,
                             !.timer = "pending"]]
       /\ isDownloading' = downloading
       /\ UNCHANGED alerted

\* the Download button is rendered while html is set and is disabled while
\* isDownloading; downloadAnimation up to its first await: the checks, then
\* resetAnimation() and playAnimation() of the hosted window where they are
\* defined, then the 500 ms wait.  When one of the two throws, the catch
\* warns and the wait is skipped: the call goes on to record in the same
\* task.  Every call has its own locals (stream, recorder, chunks, timer):
\* the call is c, the first place no unfinished call holds.
DownloadAnimation(supported) ==
  /\ html # NoHtml
  /\ ~isDownloading
  /\ \E free \in Calls : dl[free].pc \in {"idle", "done"}
  /\ LET c == CHOOSE free \in Calls :
                /\ dl[free].pc \in {"idle", "done"}
                /\ \A lower \in 1..(free - 1) : dl[lower].pc \notin {"idle", "done"}
     IN
     IF ~SameOrigin
     THEN /\ dl' = [dl EXCEPT ![c] = [IdleDownload EXCEPT !.pc = "done",
                                                        !.outcome = "noAccess"]]
          /\ alerted' = "Cannot access iframe content"
          /\ isDownloading' = FALSE
          /\ UNCHANGED <<currentFrame, anim>>
     ELSE IF ~HasCanvas(iframeDoc)
     THEN /\ dl' = [dl EXCEPT ![c] = [IdleDownload EXCEPT !.pc = "done",
                                                        !.outcome = "noCanvas"]]
          /\ alerted' = "Canvas not found in animation"
          /\ isDownloading' = FALSE
          /\ UNCHANGED <<currentFrame, anim>>
     ELSE LET before == [frame |-> currentFrame, anim |-> anim]
              \* window.resetAnimation()
              reset == IF iframeDoc.resetAnimation = "defined"
                       THEN [frame |-> 0,
                             anim |-> [isPlaying |-> FALSE, animationId |-> FALSE]]
                       ELSE before
              \* window.playAnimation()
              played == IF iframeDoc.playAnimation = "defined"
                             /\ ~reset.anim.isPlaying
                        THEN Animate([reset EXCEPT !.anim.isPlaying = TRUE])
                        ELSE reset
              resetThrows == iframeDoc.resetAnimation = "throws"
              playThrows == iframeDoc.playAnimation = "throws"
              after == IF resetThrows THEN before
                       ELSE IF playThrows THEN reset
                       ELSE played
          IN /\ currentFrame' = after.frame
             /\ anim' = after.anim
             /\ IF resetThrows \/ playThrows
                THEN RecordingStarts(c, [IdleDownload EXCEPT !.doc = iframeDoc,
                                                            !.warned = TRUE],
                                     supported, TRUE)
                ELSE /\ dl' = [dl EXCEPT ![c] =
                                 [IdleDownload EXCEPT !.pc = "waiting",
                                                      !.doc = iframeDoc]]
                     /\ isDownloading' = TRUE
                     /\ UNCHANGED alerted
  /\ UNCHANGED <<html, isIframeLoading, effectPending, navigating, loadEvents,
                 iframeDoc, posted, parentState>>
  /\ UNCHANGED <<pageVars, routeVars>>

\* downloadAnimation of call c after the 500 ms wait
StartRecording(c, supported) ==
  /\ dl[c].pc = "waiting"
  /\ RecordingStarts(c, dl[c], supported, isDownloading)
  /\ UNCHANGED <<pageVars, hostVars, routeVars>>

\* the frame the hosted document requested with requestAnimationFrame runs
\* animate()
AnimationFrame ==
  /\ anim.animationId
  /\ currentFrame' = Animate([frame |-> currentFrame, anim |-> anim]).frame
  /\ anim' = Animate([frame |-> currentFrame, anim |-> anim]).anim
  /\ UNCHANGED <<html, isIframeLoading, effectPending, navigating, loadEvents,
                 iframeDoc, posted, parentState>>
  /\ UNCHANGED <<pageVars, recVars, routeVars>>

\* the recorder of call c fails while recording: it becomes inactive and
\* queues the error event, the recorded data and the stop event
RecorderError(c, size) ==
  /\ dl[c].recorder = "recording"
  /\ dl' = [dl EXCEPT ![c].recorder = "inactive",
                      ![c].events = @ \o <<[type |-> "error", size |-> 0],
                                           [type |-> "dataavailable", size |-> size],
                                           [type |-> "stop", size |-> 0]>>]
  /\ UNCHANGED <<isDownloading, alerted>>
  /\ UNCHANGED <<pageVars, hostVars, routeVars>>

\* the event recorder.requestData() queues, none when it throws; stop()
\* queues the rest of the data and the stop event
Flushed(flush) ==
  IF flush = "throws" THEN <<>>
  ELSE <<[type |-> "dataavailable", size |-> IF flush = "data" THEN 1 ELSE 0]>>

\* a timer callback that flushes and leaves the recorder running
StopTimeoutFlushOnly(c, flush, size) ==
  /\ dl[c].timer = "pending"
  /\ IF dl[c].recorder # "inactive"
     THEN dl' = [dl EXCEPT ![c].timer = "fired",
                           ![c].calls = @ \o <<"requestData">>,
                           ![c].events = @ \o Flushed(flush)]
     ELSE dl' = [dl EXCEPT ![c].timer = "fired"]
  /\ UNCHANGED <<isDownloading, alerted>>
  /\ UNCHANGED <<pageVars, hostVars, routeVars>>

\* the callback of stopTimeout of call c, recordDuration after the start
StopTimeoutFires(c, flush, size) ==
  /\ dl[c].timer = "pending"
  /\ IF dl[c].recorder # "inactive"
     THEN dl' = [dl EXCEPT ![c].timer = "fired",
                           ![c].calls = @ \o <<"requestData", "stop">>,
                           ![c].recorder = "inactive",
                           ![c].events =
                             @ \o Flushed(flush)
                               \o <<[type |-> "dataavailable", size |-> size],
                                     [type |-> "stop", size |-> 0]>>]
     ELSE dl' = [dl EXCEPT ![c].timer = "fired"]
  /\ UNCHANGED <<isDownloading, alerted>>
  /\ UNCHANGED <<pageVars, hostVars, routeVars>>

\* recorder.ondataavailable
OnDataAvailable(c, e) ==
  /\ dl' = [dl EXCEPT ![c].events = Tail(@),
                      ![c].chunks = IF e.size > 0 THEN Append(@, e.size) ELSE @]
  /\ UNCHANGED <<isDownloading, alerted>>

\* recorder.onerror
OnError(c) ==
  /\ dl' = [dl EXCEPT ![c].events = Tail(@), ![c].timer = ClearTimeout(@),
                      ![c].stream = "stopped", ![c].outcome = "recorderError"]
  /\ isDownloading' = SetIsDownloading(c, FALSE)
  /\ alerted' = "Failed to record animation. Please try again."

\* recorder.onstop: an empty blob throws out of the handler; after the stop
\* event the recorder raises no more events
OnStop(c) ==
  /\ IF BlobSize(dl[c].chunks) = 0
     THEN /\ dl' = [dl EXCEPT ![c].events = Tail(@), ![c].timer = ClearTimeout(@),
                              ![c].pc = "done",
                              ![c].outcome = IF @ = "none" THEN "emptyBlob" ELSE @]
          /\ UNCHANGED isDownloading
     ELSE /\ dl' = [dl EXCEPT ![c].events = Tail(@), ![c].timer = ClearTimeout(@),
                              ![c].pc = "done", ![c].saved = TRUE,
                              ![c].stream = "stopped",
                              ![c].outcome = IF @ = "none" THEN "saved" ELSE @]
          /\ isDownloading' = SetIsDownloading(c, FALSE)
  /\ UNCHANGED alerted

\* the next queued event of the recorder of call c is dispatched to its
\* handler
DeliverRecorderEvent(c) ==
  /\ dl[c].events # <<>>
  /\ LET e == Head(dl[c].events) IN
       CASE e.type = "dataavailable" -> OnDataAvailable(c, e)
         [] e.type = "error" -> OnError(c)
         [] OTHER -> OnStop(c)
  /\ UNCHANGED <<pageVars, hostVars, routeVars>>

\* HomePage replaces HTMLRenderer by the guide card while a generation runs
\* and mounts a new instance afterwards: the state of the instance is new,
\* what the running calls of downloadAnimation hold is not touched
Remount(h) ==
  /\ html' = h
  /\ isIframeLoading' = FALSE
  /\ effectPending' = (h # NoHtml)
  /\ navigating' = (h # NoHtml)
  /\ loadEvents' = 0
  /\ iframeDoc' = IF h = NoHtml THEN NoHtml ELSE BlankDoc
  /\ posted' = <<>>
  /\ anim' = [isPlaying |-> FALSE, animationId |-> FALSE]
  /\ isDownloading' = FALSE
  /\ dl' = [c \in Calls |->
              IF dl[c].pc \in {"waiting", "recording"}
              THEN [dl[c] EXCEPT !.detached = TRUE] ELSE dl[c]]
  /\ UNCHANGED <<currentFrame, parentState, alerted>>
  /\ UNCHANGED <<pageVars, routeVars>>

RecInit ==
  /\ isDownloading = FALSE
  /\ dl = [c \in Calls |-> IdleDownload]
  /\ alerted = NullStr

\* ------------------------------------------------------------------------
\* Route handlers: texts
\* ------------------------------------------------------------------------

UpperCase ==
  <<"A", "B", "C", "D", "E", "F", "G", "H", "I", "J", "K", "L", "M", "N",
    "O", "P", "Q", "R", "S", "T", "U", "V", "W", "X", "Y", "Z">>

LowerCase ==
  <<"a", "b", "c", "d", "e", "f", "g", "h", "i", "j", "k", "l", "m", "n",
    "o", "p", "q", "r", "s", "t", "u", "v", "w", "x", "y", "z">>

DigitChars ==
  <<"0", "1", "2", "3", "4", "5", "6", "7", "8", "9">>

\* [a-zA-Z0-9]
IsAlnum(c) ==
  \E i \in 1..Len(UpperCase) \cup 1..Len(DigitChars) :
    \/ i <= Len(UpperCase) /\ (c = UpperCase[i] \/ c = LowerCase[i])
    \/ i <= Len(DigitChars) /\ c = DigitChars[i]

\* String.prototype.toLowerCase
LowerChar(c) ==
  IF \E i \in 1..Len(UpperCase) : UpperCase[i] = c
  THEN LowerCase[CHOOSE i \in 1..Len(UpperCase) : UpperCase[i] = c]
  ELSE c

ToLowerCase(s) == [i \in 1..Len(s) |-> LowerChar(s[i])]

\* String.prototype.includes / startsWith / endsWith
Includes(s, t) ==
  \E i \in 1..(Len(s) - Len(t) + 1) : SubSeq(s, i, i + Len(t) - 1) = t

StartsWith(s, t) == Len(s) >= Len(t) /\ SubSeq(s, 1, Len(t)) = t

EndsWith(s, t) == Len(s) >= Len(t) /\ SubSeq(s, Len(s) - Len(t) + 1, Len(s)) = t

\* the backtick character (a TLA+ string cannot hold it)
Tick == "backtick"

\* the fence marker: three backticks
Backticks == <<Tick, Tick, Tick>>

\* the index after the run of [a-zA-Z0-9] that starts at i
RECURSIVE SkipAlnum(_, _)
SkipAlnum(s, i) ==
  IF i <= Len(s) /\ IsAlnum(s[i]) THEN SkipAlnum(s, i + 1) ELSE i

\* the length of the text without the run of backticks it ends with
RECURSIVE BeforeTicks(_, _)
BeforeTicks(s, n) ==
  IF n > 0 /\ s[n] = Tick THEN BeforeTicks(s, n - 1) ELSE n

\* stripMarkdownFences: trim; code.replace(/^FENCE[a-zA-Z0-9]*\s*/u, "") when
\* the text starts with a fence marker; code.replace(/FENCE+$/u, "") when it
\* ends with one (the whole run of backticks at the end goes); trim
StripMarkdownFences(output) ==
  LET code0 == Trim(output)
      code1 == IF StartsWith(code0, Backticks)
               THEN SubSeq(code0, SkipWs(code0, SkipAlnum(code0, 4)), Len(code0))
               ELSE code0
      code2 == IF EndsWith(code1, Backticks)
               THEN SubSeq(code1, 1, BeforeTicks(code1, Len(code1)))
               ELSE code1
  IN Trim(code2)

\* the substrings isLikelyCompleteHtml looks for
RequiredTags ==
  { <<"<", "!", "d", "o", "c", "t", "y", "p", "e", " ", "h", "t", "m", "l">>,
    <<"<", "h", "t", "m", "l">>,
    <<"<", "/", "h", "t", "m", "l", ">">>,
    <<"<", "h", "e", "a", "d">>,
    <<"<", "/", "h", "e", "a", "d", ">">>,
    <<"<", "b", "o", "d", "y">>,
    <<"<", "/", "b", "o", "d", "y", ">">> }

\* a check that compares without lower-casing
IsLikelyCompleteHtmlCaseSensitive(h) ==
  \A tag \in RequiredTags : Includes(h, tag)

\* isLikelyCompleteHtml
IsLikelyCompleteHtml(h) ==
  LET lower == ToLowerCase(h) IN \A tag \in RequiredTags : Includes(lower, tag)

\* what the generator may return
\*   a complete document
CompleteHtml ==
  <<"<", "!", "D", "O", "C", "T", "Y", "P", "E", " ", "h", "t", "m", "l",
    ">", "<", "h", "t", "m", "l", ">", "<", "h", "e", "a", "d", ">", "<",
    "/", "h", "e", "a", "d", ">", "<", "b", "o", "d", "y", ">", "<", "/",
    "b", "o", "d", "y", ">", "<", "/", "h", "t", "m", "l", ">">>

\* the message of an error thrown by the generator
UpstreamError == "quota exceeded for the configured key"

GenOutcomes ==
  {[kind |-> "text", text |-> t, message |-> ""] :
     t \in { CompleteHtml,
             \* the same document inside a fence with the language tag html
             <<Tick, Tick, Tick, "h", "t", "m", "l", " ", "<", "!", "D", "O", "C", "T",
               "Y", "P", "E", " ", "h", "t", "m", "l", ">", "<", "h", "t", "m", "l",
               ">", "<", "h", "e", "a", "d", ">", "<", "/", "h", "e", "a", "d", ">",
               "<", "b", "o", "d", "y", ">", "<", "/", "b", "o", "d", "y", ">", "<",
               "/", "h", "t", "m", "l", ">", " ", Tick, Tick, Tick>>,
             \* a fragment without the document structure
             <<"<", "p", ">", "x", "<", "/", "p", ">">>,
             \* nothing but fences
             <<Tick, Tick, Tick, "h", "t", "m", "l", " ", Tick, Tick, Tick>>,
             <<>> }}
    \cup {[kind |-> "throws", text |-> <<>>, message |-> UpstreamError]}


\* ------------------------------------------------------------------------
\* Route handlers: POST /api/generate-visualization,
\* POST /api/generate-instructions and GET /api/prompt-history
\* ------------------------------------------------------------------------

\* number of POST requests the route handlers serve in one behaviour (a GET
\* of the prompt history writes nothing and is not counted)
MaxServed == 2

\* route handlers that run at one time
MaxInFlight == 2

\* the handlers that are followed; a handler that has answered leaves its
\* place to a later request
Handlers == 1..MaxInFlight

ErrNoKey ==
  "Gemini API key is not configured. Set GOOGLE_GENERATIVE_AI_API_KEY in your environment."

ErrInstructionsRoute == "Failed to generate animation instructions."

\* session?.user: the users that may hold a session, and no session
NoSession == "none"

\* the content-type header of a request ("" when it has none)
JsonType ==
  <<"a", "p", "p", "l", "i", "c", "a", "t", "i", "o", "n", "/", "j", "s", "o", "n">>

\* a string as JSON value of a body
Str(s) == [t |-> "str", v |-> s]

\* what req.json() yields: it throws on a body that is not JSON
Malformed == [parses |-> FALSE, prompt |-> Undefined, instructions |-> Undefined,
              narrativeGuide |-> Undefined]

Body(prompt, instructions, guide) ==
  [parses |-> TRUE, prompt |-> prompt, instructions |-> instructions,
   narrativeGuide |-> guide]

RequestBodies ==
  { Malformed,
    Body(Undefined, Undefined, Undefined),
    Body(Str(<<"a">>), Undefined, Undefined),
    Body(Str(<<" ">>), Str(<<>>), Undefined),
    Body([t |-> "num", v |-> <<"1">>], Undefined, Undefined),
    Body(Undefined, Str(DocPadded), GuideOf(JSONParse(DocPadded).val)),
    Body(Str(<<"a">>), Str(Fenced), Undefined) }

\* a response: its status, the fields code and error of its JSON body, the
\* field logs of a listing, and whether it is a text stream instead
NoResponse ==
  [status |-> 0, code |-> <<>>, error |-> NoErrorField, logs |-> <<>>,
   stream |-> FALSE]

\* NextResponse.json({code, error}, {status})
Json(status, code, err) ==
  [status |-> status, code |-> code, error |-> err, logs |-> <<>>,
   stream |-> FALSE]

\* no handler runs here.  Of a request, a handler holds what has reached it:
\* the content type and the query string from the start, the session once
\* getSession has resolved, the credential of the environment once it is
\* read, the body once req.json() has resolved; sessionThrew when await
\* auth.api.getSession (or await headers()) has rejected
IdleServer ==
  [pc |-> "idle", route |-> "visualization",
   request |-> [session |-> NoSession, apiKey |-> FALSE, contentType |-> <<>>,
                body |-> Malformed],
   query |-> [limit |-> <<>>, offset |-> <<>>],
   sessionThrew |-> FALSE,
   genCalls |-> 0, logAttempts |-> 0, logFailed |-> FALSE,
   row |-> [userId |-> NoSession, prompt |-> <<>>, instructions |-> Undefined,
            narrativeGuide |-> Undefined, visualizationHtml |-> <<>>,
            status |-> "", errorMessage |-> NoErrorField],
   pending |-> NoResponse, response |-> NoResponse]

\* a session without a user passes the session check
HasSessionUserAlways(session) == TRUE

\* session?.user
HasSessionUser(session) == session # NoSession

\* body?.field?.trim(): undefined stays undefined, a string is trimmed, any
\* other value has no trim method and the call throws a TypeError
TrimThrows(field) == field.t \notin {"undefined", "str"}

TrimField(field) == IF field.t = "str" THEN Trim(field.v) ELSE <<>>

\* instructions || prompt, on the trimmed fields
InputText(body) ==
  IF TrimField(body.instructions) # <<>> THEN TrimField(body.instructions)
  ELSE TrimField(body.prompt)

\* parsedInstructions: JSON.parse(instructions), null when there are none or
\* when they are not JSON; stored as undefined then
ParsedInstructions(body) ==
  IF TrimField(body.instructions) # <<>>
       /\ JSONParse(TrimField(body.instructions)).ok
  THEN JSONParse(TrimField(body.instructions)).val
  ELSE Undefined

\* the handler returns a response; the query string goes with the request
Reject(s, response) ==
  [s EXCEPT !.pc = "responded", !.response = response,
            !.query = [limit |-> <<>>, offset |-> <<>>]]

\* a request arrives: the server starts a handler for it, whatever the other
\* handlers are doing; the handler runs up to await getSession
RouteReceive(route, contentType, query) ==
  /\ route # "history" => served < MaxServed
  /\ \E free \in Handlers : srv[free].pc \in {"idle", "responded"}
  /\ LET h == CHOOSE free \in Handlers :
                /\ srv[free].pc \in {"idle", "responded"}
                /\ \A lower \in 1..(free - 1) :
                     srv[lower].pc \notin {"idle", "responded"}
     IN srv' = [srv EXCEPT ![h] =
                  [IdleServer EXCEPT !.pc = "session", !.route = route,
                                     !.request.contentType = contentType,
                                     !.query = query]]
  /\ served' = IF route = "history" THEN served ELSE served + 1
  /\ UNCHANGED promptLog
  /\ UNCHANGED <<pageVars, hostVars, recVars, san>>

\* POST of generate-visualization from the session check up to
\* await req.json()
VisualizationEntry(s) ==
  IF ~HasSessionUser(s.request.session)
  THEN Reject(s, Json(401, <<>>, "Unauthorized"))
  ELSE IF ~s.request.apiKey
  THEN Reject(s, Json(500, <<>>, ErrNoKey))
  ELSE IF ~Includes(s.request.contentType, JsonType)
  THEN Reject(s, Json(400, <<>>, "Invalid content type. Expected application/json."))
  ELSE [s EXCEPT !.pc = "body"]

\* POST of generate-instructions from the session check up to
\* await req.json()
InstructionsEntry(s) ==
  IF ~HasSessionUser(s.request.session)
  THEN Reject(s, Json(401, <<>>, "Unauthorized"))
  ELSE IF ~s.request.apiKey
  THEN Reject(s, Json(500, <<>>, ErrNoKey))
  ELSE [s EXCEPT !.pc = "body"]

\* GET of prompt-history from the session check up to
\* await prisma.promptLog.findMany: the query parameters are parsed when the
\* query resolves
PromptHistoryGet(s) ==
  IF ~HasSessionUser(s.request.session)
  THEN Reject(s, Json(401, <<>>, "Unauthorized"))
  ELSE [s EXCEPT !.pc = "querying"]

\* await auth.api.getSession of handler h settles.  It resolves with a
\* session and the handler goes on to its next await, reading process.env
\* on the way when it gets that far; or it rejects (ok is FALSE), and the
\* catch block of the handler answers 500 with the message of its route:
\* session is still null there, so the catch block of generate-visualization
\* writes no row
GetSessionResolves(h, ok, session, apiKey) ==
  /\ srv[h].pc = "session"
  /\ LET s == [srv[h] EXCEPT
                 !.request.session = session,
                 !.request.apiKey = HasSessionUser(session) /\ apiKey
                                      /\ srv[h].route # "history"]
     IN srv' = [srv EXCEPT ![h] =
                  CASE ~ok ->
                         Reject([srv[h] EXCEPT !.sessionThrew = TRUE],
                                Json(500, <<>>,
                                     CASE srv[h].route = "visualization" -> ErrRoute
                                       [] srv[h].route = "instructions" ->
                                            ErrInstructionsRoute
                                       [] OTHER ->
                                            "Failed to fetch prompt history."))
                    [] s.route = "visualization" -> VisualizationEntry(s)
                    [] s.route = "instructions" -> InstructionsEntry(s)
                    [] OTHER -> PromptHistoryGet(s)]
  /\ UNCHANGED <<served, promptLog>>
  /\ UNCHANGED <<pageVars, hostVars, recVars, san>>

\* POST of generate-visualization from the body up to generateText
VisualizationBody(s) ==
  LET body == s.request.body IN
    IF ~body.parses
    THEN \* req.json() throws; body is still null in the catch block
         Reject(s, Json(500, <<>>, ErrRoute))
    ELSE IF TrimThrows(body.instructions) \/ TrimThrows(body.prompt)
    THEN \* the TypeError is thrown again by the catch block and swallowed
         Reject(s, Json(500, <<>>, ErrRoute))
    ELSE IF InputText(body) = <<>>
    THEN Reject(s, Json(400, <<>>,
                   "Missing or empty 'instructions' or 'prompt' in request body."))
    ELSE [s EXCEPT !.pc = "generating", !.genCalls = 1]

\* POST of generate-instructions from the body up to streamText
InstructionsBody(s) ==
  LET body == s.request.body IN
    IF ~body.parses
    THEN Reject(s, Json(500, <<>>, ErrInstructionsRoute))
    ELSE IF body.prompt.t # "str" \/ Trim(body.prompt.v) = <<>>
    THEN Reject(s, Json(400, <<>>, "Missing or empty 'prompt' in request body."))
    ELSE [s EXCEPT !.pc = "generating", !.genCalls = 1]

\* req.json() of handler h resolves with the body or rejects
ReqJsonResolves(h, body) ==
  /\ srv[h].pc = "body"
  /\ LET s == [srv[h] EXCEPT !.request.body = body]
     IN srv' = [srv EXCEPT ![h] = IF s.route = "visualization"
                                  THEN VisualizationBody(s)
                                  ELSE InstructionsBody(s)]
  /\ UNCHANGED <<served, promptLog>>
  /\ UNCHANGED <<pageVars, hostVars, recVars, san>>

\* the row written after a generation, and the one written by the catch block
SuccessRow(s, code) ==
  [userId |-> s.request.session,
   prompt |-> InputText(s.request.body),
   instructions |-> ParsedInstructions(s.request.body),
   narrativeGuide |-> s.request.body.narrativeGuide,
   visualizationHtml |-> code,
   status |-> IF IsLikelyCompleteHtml(code) THEN "VISUALIZATION_COMPLETE"
              ELSE "FAILED",
   errorMessage |-> IF IsLikelyCompleteHtml(code) THEN NoErrorField
                    ELSE WarnIncomplete]

FailureRow(s, message) ==
  [userId |-> s.request.session,
   prompt |-> InputText(s.request.body),
   instructions |-> ParsedInstructions(s.request.body),
   narrativeGuide |-> s.request.body.narrativeGuide,
   visualizationHtml |-> <<>>,
   status |-> "FAILED",
   errorMessage |-> message]

\* a handler that refuses a code without the document structure
VisualizationResponseStrict(code) ==
  IF code = <<>> \/ ~IsLikelyCompleteHtml(code)
  THEN Json(502, <<>>, "Model returned an empty response.")
  ELSE Json(200, code, NoErrorField)

\* the response for the fence-stripped output of the generator: 502 when it
\* is empty, else 200 with the code, and with the warning when
\* isLikelyCompleteHtml fails
VisualizationResponse(code) ==
  IF code = <<>>
  THEN Json(502, <<>>, "Model returned an empty response.")
  ELSE Json(200, code,
            IF IsLikelyCompleteHtml(code) THEN NoErrorField
            ELSE WarnIncomplete)

\* generateText of handler h returns or throws: stripMarkdownFences, the
\* empty check, isLikelyCompleteHtml, up to prisma.promptLog.create; or the
\* catch block up to its prisma.promptLog.create
GenerateTextReturns(h, out) ==
  /\ srv[h].pc = "generating"
  /\ srv[h].route = "visualization"
  /\ LET code == StripMarkdownFences(out.text)
         s == srv[h]
     IN
       srv' = [srv EXCEPT ![h] =
         IF out.kind = "throws"
         THEN [s EXCEPT !.pc = "logging", !.row = FailureRow(s, out.message),
                        !.pending = Json(500, <<>>, ErrRoute)]
         ELSE IF code = <<>>
         THEN Reject(s, VisualizationResponse(code))
         ELSE [s EXCEPT !.pc = "logging", !.row = SuccessRow(s, code),
                        !.pending = VisualizationResponse(code)]]
  /\ UNCHANGED <<served, promptLog>>
  /\ UNCHANGED <<pageVars, hostVars, recVars, san>>

\* streamText of handler h returns or throws
StreamTextReturns(h, out) ==
  /\ srv[h].pc = "generating"
  /\ srv[h].route = "instructions"
  /\ srv' = [srv EXCEPT ![h] =
               IF out.kind = "throws"
               THEN Reject(srv[h], Json(500, <<>>, ErrInstructionsRoute))
               ELSE \* result.toTextStreamResponse()
                    Reject(srv[h], [Json(200, <<>>, NoErrorField)
                                      EXCEPT !.stream = TRUE])]
  /\ UNCHANGED <<served, promptLog>>
  /\ UNCHANGED <<pageVars, hostVars, recVars, san>>

\* a handler that lets a failed write reach its catch block
ResponseLogFailureSurfaces(s, ok) ==
  IF ok THEN s.pending ELSE Json(500, <<>>, ErrRoute)

\* the response after prisma.promptLog.create: a failed write is logged to
\* the console and swallowed
ResponseAfterLog(s, ok) == s.pending

\* prisma.promptLog.create of handler h resolves or rejects; then the
\* response
PromptLogCreate(h, ok) ==
  /\ srv[h].pc = "logging"
  /\ promptLog' = IF ok THEN Append(promptLog, srv[h].row) ELSE promptLog
  /\ srv' = [srv EXCEPT ![h] =
               [srv[h] EXCEPT !.pc = "responded", !.logAttempts = @ + 1,
                              !.logFailed = ~ok,
                              !.response = ResponseAfterLog(srv[h], ok)]]
  /\ UNCHANGED served
  /\ UNCHANGED <<pageVars, hostVars, recVars, san>>

\* parseInt(text, 10): leading whitespace is skipped; then an optional
\* sign, then the longest run of decimal digits that follows; NaN when no
\* digit follows.  The result is a record: isNaN, and the integer value
\* when it is a number
ParseInt(s) ==
  LET IsDigit(c) == \E d \in 1..10 : DigitChars[d] = c
      text == TrimStart(s)
      body == IF text # <<>> /\ text[1] \in {"-", "+"} THEN Tail(text) ELSE text
      RECURSIVE Value(_, _)
      Value(i, acc) ==
        IF i > Len(body) \/ ~IsDigit(body[i]) THEN acc
        ELSE Value(i + 1,
                   10 * acc + (CHOOSE d \in 0..9 : DigitChars[d + 1] = body[i]))
  IN IF body = <<>> \/ ~IsDigit(body[1]) THEN [isNaN |-> TRUE, value |-> 0]
     ELSE [isNaN |-> FALSE,
           value |-> IF text[1] = "-" THEN 0 - Value(1, 0) ELSE Value(1, 0)]

\* a listing that leaves out the where clause
RECURSIVE OwnedDescAnyUser(_, _)
OwnedDescAnyUser(userId, n) ==
  IF n = 0 THEN <<>>
  ELSE << [id |-> n, prompt |-> promptLog[n].prompt,
           instructions |-> promptLog[n].instructions,
           narrativeGuide |-> promptLog[n].narrativeGuide,
           visualizationHtml |-> promptLog[n].visualizationHtml,
           status |-> promptLog[n].status,
           errorMessage |-> promptLog[n].errorMessage,
           createdAt |-> n] >>
         \o OwnedDescAnyUser(userId, n - 1)

\* where: {userId}, orderBy: {createdAt: "desc"}, select: {...} over the
\* first n rows of the table.  Rows are created one at a time, so the
\* position of a row in the table is its creation time, and it serves as its
\* id as well.
RECURSIVE OwnedDesc(_, _)
OwnedDesc(userId, n) ==
  IF n = 0 THEN <<>>
  ELSE (IF promptLog[n].userId = userId
        THEN << [id |-> n, prompt |-> promptLog[n].prompt,
                 instructions |-> promptLog[n].instructions,
                 narrativeGuide |-> promptLog[n].narrativeGuide,
                 visualizationHtml |-> promptLog[n].visualizationHtml,
                 status |-> promptLog[n].status,
                 errorMessage |-> promptLog[n].errorMessage,
                 createdAt |-> n] >>
        ELSE <<>>)
         \o OwnedDesc(userId, n - 1)

\* prisma.promptLog.findMany({where, orderBy, take, skip, select}) for
\* integers take and skip >= 0: take rows from the start of the ordered
\* list after skipping skip of them; a negative take counts from the end of
\* the list, and so does skip then
FindMany(userId, take, skip) ==
  LET all == OwnedDesc(userId, Len(promptLog)) IN
    IF take >= 0
    THEN SubSeq(all, skip + 1, Min(Len(all), skip + take))
    ELSE SubSeq(all,
                IF Len(all) - skip + take + 1 < 1 THEN 1
                ELSE Len(all) - skip + take + 1,
                Len(all) - skip)

\* prisma.promptLog.findMany of handler h resolves with the rows the table
\* holds now, or rejects: the response {logs, total} (total is the length of
\* logs), or the one of the catch block.  limit and offset are the query
\* parameters with their defaults, parsed and passed on as they are: a
\* negative skip makes findMany reject; what it does with NaN is not in
\* these sources, it rejects or goes without the argument
FindManyResolves(h, ok) ==
  /\ srv[h].pc = "querying"
  /\ LET s == srv[h]
         limit == ParseInt(IF s.query.limit # <<>> THEN s.query.limit
                           ELSE <<"5", "0">>)
         offset == ParseInt(IF s.query.offset # <<>> THEN s.query.offset
                            ELSE <<"0">>)
         take == IF limit.isNaN THEN Len(promptLog) ELSE limit.value
         skip == IF offset.isNaN THEN 0 ELSE offset.value
     IN
       /\ ok => skip >= 0
       /\ srv' = [srv EXCEPT ![h] =
            IF ~ok
            THEN Reject(s, Json(500, <<>>, "Failed to fetch prompt history."))
            ELSE Reject(s, [Json(200, <<>>, NoErrorField)
                              EXCEPT !.logs = FindMany(s.request.session, take,
                                                       skip)])]
  /\ UNCHANGED <<served, promptLog>>
  /\ UNCHANGED <<pageVars, hostVars, recVars, san>>

RouteInit ==
  /\ srv = [h \in Handlers |-> IdleServer]
  /\ served = 0
  /\ promptLog = <<>>

\* ------------------------------------------------------------------------
\* The output sanitizer: stripMarkdownFences and isLikelyCompleteHtml over
\* generated outputs
\* ------------------------------------------------------------------------

\* fence pairs an output is wrapped in
MaxFencePairs == 2

\* the document of an output: the doctype and the six tags, each present
\* when its number is in mask, written plainly or (attrs) in mixed case with
\* attributes and whitespace between the tags; header adds a header element
\* to the body
Document(src) ==
  LET pieces ==
        IF src.attrs
        THEN << <<"<", "!", "d", "o", "c", "t", "y", "p", "e", " ", "h", "t", "m", "l", ">">>,
               <<" ", "<", "H", "T", "M", "L", " ", "l", "a", "n", "g", "=", "\"", "e", "n", "\"", ">">>,
               <<" ", "<", "H", "e", "a", "d", ">">>,
               <<" ", "<", "/", "H", "E", "A", "D", ">">>,
               <<" ", "<", "b", "o", "d", "y", " ", "c", "l", "a", "s", "s", "=", "\"", "a", "\"", ">">>,
               <<" ", "<", "/", "B", "o", "d", "y", ">">>,
               <<" ", "<", "/", "h", "t", "m", "l", ">">> >>
        ELSE << <<"<", "!", "D", "O", "C", "T", "Y", "P", "E", " ", "h", "t", "m", "l", ">">>,
               <<"<", "h", "t", "m", "l", ">">>,
               <<"<", "h", "e", "a", "d", ">">>,
               <<"<", "/", "h", "e", "a", "d", ">">>,
               <<"<", "b", "o", "d", "y", ">">>,
               <<"<", "/", "b", "o", "d", "y", ">">>,
               <<"<", "/", "h", "t", "m", "l", ">">> >>
      Part(i) == IF i \in src.mask THEN pieces[i] ELSE <<>>
  IN Part(1) \o Part(2) \o Part(3) \o Part(4) \o Part(5)
       \o (IF src.header
           THEN <<"<", "h", "e", "a", "d", "e", "r", ">", "x", "<", "/", "h", "e", "a", "d", "e", "r", ">">>
           ELSE <<>>)
       \o Part(6) \o Part(7)

\* a text inside fence pairs, outermost first; each opening marker carries
\* the language tag given for it (<<>> for none)
RECURSIVE Fence(_, _)
Fence(tags, text) ==
  IF tags = <<>> THEN text
  ELSE Backticks \o Head(tags) \o <<" ">> \o Fence(Tail(tags), text)
         \o <<" ">> \o Backticks

\* the outputs: a document in up to MaxFencePairs nested fence pairs, or
\* (twice) two such blocks one after the other
SanitizerInputs ==
  [mask : SUBSET (1..7), attrs : BOOLEAN, header : BOOLEAN, twice : BOOLEAN,
   tags : UNION {[1..n -> {<<>>, <<"h", "t", "m", "l">>}] : n \in 0..MaxFencePairs}]

\* text of generateText for an input
OutputText(src) ==
  LET block == Fence(src.tags, Document(src)) IN
    IF src.twice THEN block \o <<" ">> \o block ELSE block

\* const code = stripMarkdownFences(text ?? "")
ApplyStripMarkdownFences ==
  /\ san.pc = "text"
  /\ san' = [san EXCEPT !.pc = "code", !.code = StripMarkdownFences(san.text)]
  /\ UNCHANGED <<pageVars, hostVars, recVars, srv, served, promptLog>>

\* const validHtml = isLikelyCompleteHtml(code), reached when the code is not
\* empty (an empty code is answered 502 before)
ApplyIsLikelyCompleteHtml ==
  /\ san.pc = "code"
  /\ san.code # <<>>
  /\ san' = [san EXCEPT !.pc = "checked",
                        !.validHtml = IsLikelyCompleteHtml(san.code)]
  /\ UNCHANGED <<pageVars, hostVars, recVars, srv, served, promptLog>>

\* the generator has returned one of the outputs
SanitizerInit ==
  /\ PageInit /\ HostInit /\ RecInit /\ RouteInit
  /\ \E src \in SanitizerInputs :
       san = [pc |-> "text", src |-> src, text |-> OutputText(src),
              code |-> <<>>, validHtml |-> FALSE]

\* ------------------------------------------------------------------------
\* Specifications
\* ------------------------------------------------------------------------

Init ==
  /\ PageInit /\ HostInit /\ RecInit /\ RouteInit
  /\ san = [pc |-> "idle", src |-> <<>>, text |-> <<>>, code |-> <<>>,
            validHtml |-> FALSE]

PageNext ==
  \/ \E p \in Prompts : TypePrompt(p)
  \/ \E example \in EXAMPLE_PROMPTS : HandleUseExample(example)
  \/ HandleGenerate
  \/ HandleStopInstructions
  \/ StartNewConversation
  \/ \E i \in 1..MaxRequests : SelectConversation(i)
  \/ \E r \in Requests, body \in {Blank, DocPadded} : FetchResponse(r, body)
  \/ \E r \in Requests : StreamFails(r)
  \/ \E r \in Requests : AbortContinuation(r)
  \/ \E r \in Requests, k \in ChunkSizes : ReadChunk(r, k)
  \/ \E r \in Requests : ReadDone(r)
  \/ \E r \in Requests, out \in CompileOutcomes : CompileResponse(r, out)

HostNext ==
  \/ \E h \in Docs \cup {NoHtml} : AssignHtml(h)
  \/ HtmlEffect
  \/ DocumentLoads
  \/ IframeLoad
  \/ StepForward
  \/ StepBackward
  \/ DeliverMessage
  \/ HostedScriptTouchesParent

DecoderNext ==
  \/ \E p \in Prompts : TypePrompt(p)
  \/ (nextReq < MaxStreams /\ HandleGenerate)
  \/ HandleStopInstructions
  \/ \E r \in Requests, body \in StreamBodies : FetchResponse(r, body)
  \/ \E r \in Requests : StreamFails(r)
  \/ \E r \in Requests : AbortContinuation(r)
  \/ \E r \in Requests, k \in ChunkSizes : ReadChunk(r, k)
  \/ \E r \in Requests : ReadDone(r)
  \/ \E r \in Requests, out \in CompileOutcomes : CompileResponse(r, out)

RecorderNext ==
  \/ \E h \in Docs \cup {NoHtml} : AssignHtml(h)
  \/ HtmlEffect
  \/ DocumentLoads
  \/ IframeLoad
  \/ \E h \in Docs \cup {NoHtml} : Remount(h)
  \/ \E supported \in SupportedSets : DownloadAnimation(supported)
  \/ \E c \in Calls, supported \in SupportedSets : StartRecording(c, supported)
  \/ AnimationFrame
  \/ \E c \in Calls, size \in BlobSizes : RecorderError(c, size)
  \/ \E c \in Calls, flush \in FlushResults, size \in BlobSizes :
       StopTimeoutFires(c, flush, size)
  \/ \E c \in Calls : DeliverRecorderEvent(c)

RouteNext ==
  \* a POST with a content type: application/json, the same with a charset,
  \* text/plain, or none
  \/ \E route \in {"visualization", "instructions"},
        contentType \in
          { JsonType,
            JsonType \o <<";", " ", "c", "h", "a", "r", "s", "e", "t", "=",
                          "u", "t", "f", "-", "8">>,
            <<"t", "e", "x", "t", "/", "p", "l", "a", "i", "n">>, <<>> } :
       RouteReceive(route, contentType, IdleServer.query)
  \* a GET with the query parameters limit and offset, as texts (<<>> when
  \* the parameter is absent or empty): a count, a count after whitespace
  \* (?limit=%200), a negative number, a text that is no number
  \/ \E query \in
          [limit : {<<>>, <<"1">>}, offset : {<<>>, <<"1">>}]
            \cup [limit : {<<" ", "0">>, <<"-", "1">>, <<"x">>},
                  offset : {<<>>}]
            \cup [limit : {<<>>}, offset : {<<"-", "1">>, <<"x">>}]
            \cup [limit : {<<"-", "1">>}, offset : {<<"1">>}] :
       RouteReceive("history", <<>>, query)
  \/ \E h \in Handlers, session \in {"u1", "u2", NoSession}, apiKey \in BOOLEAN :
       GetSessionResolves(h, TRUE, session, apiKey)
  \/ \E h \in Handlers : GetSessionResolves(h, FALSE, NoSession, FALSE)
  \/ \E h \in Handlers, body \in RequestBodies : ReqJsonResolves(h, body)
  \/ \E h \in Handlers, out \in GenOutcomes : GenerateTextReturns(h, out)
  \/ \E h \in Handlers, out \in GenOutcomes : StreamTextReturns(h, out)
  \/ \E h \in Handlers, ok \in BOOLEAN : PromptLogCreate(h, ok)
  \/ \E h \in Handlers, ok \in BOOLEAN : FindManyResolves(h, ok)

SanitizerNext ==
  \/ ApplyStripMarkdownFences
  \/ ApplyIsLikelyCompleteHtml

\* the page: generation requests, supersession, the conversation store
Spec == Init /\ [][PageNext]_vars

\* the instruction stream decoder and the compiler client, over every body
SpecDecoder == Init /\ [][DecoderNext]_vars

\* the playback host
SpecHost == Init /\ [][HostNext]_vars

\* the playback host and downloadAnimation
SpecRecorder == Init /\ [][RecorderNext]_vars

\* the route handlers
SpecRoutes == Init /\ [][RouteNext]_vars

\* the output sanitizer over the outputs
SpecSanitizer == SanitizerInit /\ [][SanitizerNext]_vars

\* a timer set with setTimeout and not cleared fires
SpecRecorderLive ==
  /\ SpecRecorder
  /\ \A c \in Calls :
       WF_vars(\E flush \in FlushResults, size \in BlobSizes :
                  StopTimeoutFires(c, flush, size))


\* ------------------------------------------------------------------------
\* Claims
\* ------------------------------------------------------------------------

\* a step taken by the call r of streamInstructions after it was aborted
AbortedStep(r) ==
  /\ req[r].aborted
  /\ req'[r].pc # req[r].pc

\* C1 as stated: once a stream has been aborted, no later continuation of
\* that request changes shared UI/result state or the shared
\* abort-controller reference.
C1_AbortedMutatesNothing ==
  [][\A r \in Requests :
       AbortedStep(r) => UNCHANGED <<uiState, abortControllerRef>>]_vars

\* C1 amended: once an in-flight stream has been aborted, the only later
\* step of that request is its catch/finally continuation, which changes no
\* shared UI/result state and writes only the abort-controller reference,
\* clearing it while it still holds that request's own controller.
C1_AbortAuthoritative ==
  [][\A r \in Requests :
       AbortedStep(r) =>
         /\ UNCHANGED uiState
         /\ abortControllerRef = r
         /\ abortControllerRef' = NullId
         /\ req'[r].pc = "done"]_vars

\* an aborted request has run its continuation
C1_Witness ==
  \E r \in Requests :
    /\ req[r].aborted
    /\ req[r].pc = "done"
    /\ abortControllerRef = NullId
    /\ ~isGeneratingInstructions

\* C2: after an in-flight stream is aborted no chunk is accumulated, no
\* final parse and no compiler call is made for that request, and neither the
\* abort nor its continuation sets the error.
C2_AbortStopsDecoding ==
  [][\A r \in Requests :
       (req'[r].aborted /\ req'[r] # req[r]) =>
         /\ animationInstructions' = animationInstructions
         /\ Len(req'[r].accumulatedText) <= Len(req[r].accumulatedText)
         /\ req'[r].offset <= req[r].offset
         /\ req'[r].finalParse = "none"
         /\ req'[r].pc \in {"rejected", "done"}
         /\ \A i \in 1..Len(posts') : posts'[i].req # r
         /\ isLoading' = isLoading
         /\ error' = error]_vars

\* a stream was aborted after chunks had been accumulated; nothing was
\* compiled and no error is shown
C2_Witness ==
  \E r \in Requests :
    /\ req[r].aborted
    /\ req[r].pc = "done"
    /\ animationInstructions # <<>>
    /\ posts = <<>>
    /\ ~isLoading
    /\ error = NullStr

\* C3 as stated: the compile response of a superseded request (a new
\* conversation was started or a history entry restored while it was in
\* flight) leaves the displayed visualization, warning and error alone.
C3_StaleResponseIgnored ==
  [][\A r \in Requests :
       (req[r].pc = "compile" /\ req[r].superseded /\ req'[r].pc = "done") =>
         UNCHANGED <<generatedHTML, apiWarning, error>>]_vars

\* C4: at most one stream decode and at most one compiler call are in
\* flight, and no call of streamInstructions starts while one is in flight.
C4_OneInFlight ==
  [][/\ Cardinality({r \in Requests : req'[r].pc \in {"fetch", "read", "rejected"}}) <= 1
     /\ Cardinality({r \in Requests : req'[r].pc = "compile"}) <= 1
     /\ Len(posts') <= 1
     /\ (\E r \in Requests : InFlight(r)) =>
          /\ nextReq' = nextReq
          /\ \A q \in Requests : req[q].pc = "idle" => req'[q].pc = "idle"]_vars

\* a compiler call is in flight while the prompt is not empty, so that only
\* the early return keeps handleGenerate from starting another request
C4_Witness ==
  \E r \in Requests :
    /\ Compiling(r)
    /\ isLoading
    /\ Trim(inputPrompt) # <<>>
    /\ nextReq < MaxRequests


\* the narrativeGuide obtained by decoding and parsing a body in one shot
OneShotGuide(body) == GuideOf(JSONParse(DecodeAll(body)).val)

\* C5: for a well-formed document delivered in any chunking, once the stream
\* has ended the surfaced narrativeGuide is the one of the one-shot parse
\* (none when the document has none).
C5_ChunkingInvariant ==
  \A r \in Requests :
    (req[r].pc = "compile" /\ req[r].body \in WellFormedDocs) =>
      narrativeGuide = OneShotGuide(req[r].body)

\* the document with a guide has been decoded to its end
C5_Witness ==
  \E r \in Requests :
    /\ req[r].pc = "compile"
    /\ req[r].body = DocGuide
    /\ narrativeGuide # Undefined
    /\ narrativeGuide = OneShotGuide(DocGuide)

\* some span of the buffer parses as JSON to a value with this narrativeGuide
GuideOfSomeSpan(acc, guide) ==
  \E i \in 1..Len(acc) : \E j \in i..Len(acc) :
    LET p == JSONParse(SubSeq(acc, i, j)) IN
      p.ok /\ GuideOf(p.val) = guide

\* C6: after every chunk and after the final parse the surfaced
\* narrativeGuide is unset or the narrativeGuide of a successfully parsed
\* span of the buffer; a chunk whose extracted span does not parse leaves
\* the narrativeGuide unchanged and sets no error.
C6_GuideOnlyFromParsedJson ==
  [][\A r \in Requests :
       (req[r].pc = "read" /\ req'[r].pc \in {"read", "compile"}
          /\ req'[r] # req[r]) =>
         LET acc == req'[r].accumulatedText IN
           /\ narrativeGuide' = Undefined \/ GuideOfSomeSpan(acc, narrativeGuide')
           /\ (req'[r].pc = "read" /\ ~JSONParse(JsonMatch(acc)).ok) =>
                (narrativeGuide' = narrativeGuide /\ error' = error)]_vars

\* a guide has been surfaced and a later chunk made the extracted span
\* unparseable
C6_Witness ==
  \E r \in Requests :
    /\ req[r].pc = "read"
    /\ narrativeGuide # Undefined
    /\ JsonMatch(req[r].accumulatedText) # <<>>
    /\ ~JSONParse(JsonMatch(req[r].accumulatedText)).ok
    /\ error = NullStr

\* the step in which the call r sees the end of its stream
EndOfStream(r) ==
  /\ req[r].pc = "read"
  /\ req'[r].finalParse # "none"

\* C7 as stated: at the end of a stream the raw accumulated text is
\* forwarded to exactly one compiler call, for every text.
C7_RawTextAlwaysForwarded ==
  [][\A r \in Requests :
       EndOfStream(r) =>
         /\ Len(posts') = Len(posts) + 1
         /\ posts'[Len(posts')].req = r
         /\ posts'[Len(posts')].instructions = req[r].accumulatedText]_vars

\* C7 amended: at the end of a stream that was not aborted the accumulated
\* text, trimmed of surrounding whitespace, is forwarded to exactly one
\* compiler call whether or not the final parse succeeded, unless it is
\* empty after trimming; then no compiler call is made and the error "No
\* animation instructions generated." is set.
C7_TrimmedTextForwarded ==
  [][\A r \in Requests :
       EndOfStream(r) =>
         LET acc == req[r].accumulatedText IN
           IF Trim(acc) = <<>>
           THEN /\ posts' = posts
                /\ error' = ErrNoInstructions
                /\ req'[r].pc = "done"
           ELSE /\ Len(posts') = Len(posts) + 1
                /\ posts'[Len(posts')].req = r
                /\ posts'[Len(posts')].instructions = Trim(acc)
                /\ \A i \in 1..Len(posts) : posts[i].req # r
                /\ req'[r].pc = "compile"]_vars

\* a text whose final parse failed has been forwarded to the compiler
C7_Witness ==
  \E r \in Requests :
    /\ req[r].pc = "compile"
    /\ req[r].finalParse = "failed"
    /\ Len(posts) = 1
    /\ posts[1].req = r
    /\ posts[1].instructions = Trim(req[r].accumulatedText)

\* C8 as stated: aborting a stream leaves no observable state change: when
\* the stream is aborted before any partial parse succeeded, then after the
\* abort no narrativeGuide is current, visualization and error are what
\* handleGenerate left before the first chunk, and so is the page's other
\* state that the stream writes and the page shows, the instructions text.
C8_AbortLeavesNoTrace ==
  \A r \in Requests :
    (req[r].aborted /\ ~req[r].surfaced /\ r = nextReq) =>
      /\ narrativeGuide = Undefined
      /\ generatedHTML = NullStr
      /\ error = NullStr
      /\ animationInstructions = <<>>

\* C9 as stated: script of the hosted document never reads or writes the
\* parent page's document, storage or state.
C9_ParentIsolated == parentState = "host"

\* a loaded document that does not define window.stepForward
LacksStepForward ==
  html # NoHtml /\ iframeDoc \in Docs /\ iframeDoc.stepForward = "absent"

\* a loaded document that does not define window.stepBackward
LacksStepBackward ==
  html # NoHtml /\ iframeDoc \in Docs /\ iframeDoc.stepBackward = "absent"

\* C10 as stated: for a loaded document without window.stepForward
\* (window.stepBackward) the step control posts the stepForward
\* (stepBackward) message.
C10_FallsBackToMessage ==
  /\ (LacksStepForward /\ Len(posted) < MaxPosted) =>
       ENABLED (StepForward /\ posted' = Append(posted, "stepForward"))
  /\ (LacksStepBackward /\ Len(posted) < MaxPosted) =>
       ENABLED (StepBackward /\ posted' = Append(posted, "stepBackward"))

\* the state of the playback host.  Between the commit of a document and
\* the effect of that commit the host counts as Loading
HostState ==
  IF html = NoHtml THEN "Empty"
  ELSE IF isIframeLoading \/ effectPending THEN "Loading"
  ELSE "Ready"

\* C11 as stated: the playback host follows Empty -> Loading -> Ready:
\* assigning a new non-null document in any state puts it in Loading; it
\* becomes Ready only from Loading, through the load of the currently
\* assigned document, and it leaves Loading only that way or by losing its
\* document; in Ready the loaded document is the assigned one.
C11_EmptyLoadingReady ==
  /\ [](HostState = "Ready" => (iframeDoc = html /\ ~navigating))
  /\ [][(html' # html /\ html' # NoHtml) => HostState' = "Loading"]_vars
  /\ [][(HostState # "Ready" /\ HostState' = "Ready") =>
          /\ HostState = "Loading"
          /\ html' = html
          /\ iframeDoc' = html
          /\ ~navigating']_vars
  /\ [][(HostState = "Loading" /\ HostState' # "Loading") =>
          \/ HostState' = "Ready" /\ html' = html
          \/ html' = NoHtml]_vars

\* call c of downloadAnimation has returned and no handler, event or timer
\* of it is left
DownloadFinished(c) ==
  /\ dl[c].pc = "done"
  /\ dl[c].events = <<>>
  /\ dl[c].timer # "pending"

\* C12 as stated: every call of downloadAnimation that opened a capture
\* stream has stopped the tracks of that stream when it is finished.
C12_TracksStoppedWhenFinished ==
  \A c \in Calls :
    (DownloadFinished(c) /\ dl[c].stream # "none") => dl[c].stream = "stopped"

\* the step in which call c is rejected for want of a supported encoding
RejectedNoCodec(c) ==
  /\ dl'[c] # dl[c]
  /\ dl'[c].pc = "done"
  /\ dl'[c].outcome = "noCodec"

\* C13 as stated: when no encoding is supported, the call is rejected with
\* "No supported video codec found" and no capture stream has been opened
\* and no recorder started.
C13_NoCodecBeforeCapture ==
  [][\A c \in Calls :
       RejectedNoCodec(c) =>
         /\ alerted' = ErrNoCodec
         /\ dl'[c].stream = "none"
         /\ dl'[c].recorder = "none"]_vars

\* C14 as stated: a finished call of downloadAnimation that failed has shown
\* its failure and left isDownloading false (for the instance that made it,
\* when no other call of it is running).
C14_FailureReenablesDownload ==
  \A c \in Calls :
    (/\ DownloadFinished(c) /\ ~dl[c].saved /\ ~dl[c].detached
     /\ \A other \in Calls \ {c} : dl[other].pc \in {"idle", "done"}) =>
      /\ ~isDownloading
      /\ alerted # NullStr

\* the step in which the stop timer of call c fires while its recorder is
\* active
TimerStopsRecorder(c) ==
  /\ dl[c].timer = "pending"
  /\ dl'[c].timer = "fired"
  /\ dl[c].recorder = "recording"

\* C15: when the stop timer of a call fires while its recorder is active,
\* requestData and then stop are called, in that order; the recorder is
\* never active once the timer has fired; and every recording that is
\* started becomes inactive.
C15_FlushThenStop ==
  /\ [][\A c \in Calls :
          TimerStopsRecorder(c) =>
            /\ dl'[c].calls = dl[c].calls \o <<"requestData", "stop">>
            /\ dl'[c].recorder = "inactive"]_vars
  /\ [](\A c \in Calls : dl[c].timer = "fired" => dl[c].recorder = "inactive")
  /\ \A c \in Calls :
       (dl[c].recorder = "recording") ~> (dl[c].recorder = "inactive")

\* the timer has stopped a recorder that was still active
C15_Witness ==
  \E c \in Calls :
    /\ dl[c].timer = "fired"
    /\ dl[c].calls = <<"start", "requestData", "stop">>

\* a running recording is superseded: another document is assigned or the
\* host instance that started it is unmounted
Superseding(c) ==
  /\ dl[c].pc = "recording"
  /\ \/ html' # html
     \/ ~dl[c].detached /\ dl'[c].detached

\* C16 as stated: when a new document is assigned or the host is unmounted
\* (a new generation starts) while a recording is running, the stop timer of
\* that recording is cleared and its capture tracks are stopped.
C16_SupersededTornDown ==
  [][\A c \in Calls :
       Superseding(c) =>
         (dl'[c].timer # "pending" /\ dl'[c].stream # "live")]_vars

\* the request carries a session user and the upstream credential is set
Admitted(request) == request.session # NoSession /\ request.apiKey

\* the request has the shape its route asks for: a JSON content type, a body
\* that is JSON, and a non-empty prompt (or, for the visualization route,
\* non-empty instructions)
NonEmptyString(field) == field.t = "str" /\ Trim(field.v) # <<>>

WellShaped(route, request) ==
  /\ Includes(request.contentType, JsonType)
  /\ request.body.parses
  /\ \/ NonEmptyString(request.body.prompt)
     \/ route = "visualization" /\ NonEmptyString(request.body.instructions)

\* handler h has answered with one of the rejections of its entry checks
Rejected(h) ==
  /\ srv[h].pc = "responded"
  /\ \/ srv[h].response.status \in {400, 401}
     \/ srv[h].response.status = 500 /\ srv[h].response.error = ErrNoKey

\* C17: in both generation routes the generator is called only for a request
\* with a session user, with the credential configured, whose body is JSON
\* and carries a non-empty prompt (or instructions); a request rejected with
\* 401, with the credential error or with 400 has made no generator call and
\* no prompt-log write, and neither has a request whose session check threw,
\* which is answered 500.
C17_ChecksBeforeGenerator ==
  \A h \in Handlers :
    /\ srv[h].genCalls > 0 =>
         /\ Admitted(srv[h].request)
         /\ srv[h].request.body.parses
         /\ \/ NonEmptyString(srv[h].request.body.prompt)
            \/ srv[h].route = "visualization"
                 /\ NonEmptyString(srv[h].request.body.instructions)
         /\ srv[h].route = "visualization" =>
              Includes(srv[h].request.contentType, JsonType)
    /\ (Rejected(h) \/ srv[h].sessionThrew) =>
         (srv[h].genCalls = 0 /\ srv[h].logAttempts = 0)
    /\ srv[h].sessionThrew =>
         (srv[h].pc = "responded" /\ srv[h].response.status = 500)

\* the visualization route has rejected a request that had a session and a
\* credential, while another handler is waiting for the generator
C17_Witness ==
  \E h \in Handlers, other \in Handlers :
    /\ Rejected(h)
    /\ srv[h].route = "visualization"
    /\ srv[h].response.status = 400
    /\ Admitted(srv[h].request)
    /\ srv[other].pc = "generating"

\* C18 as stated: an admitted request that violates the request shape is
\* answered with a 400-class status.
C18_ShapeViolationIs400 ==
  \A h \in Handlers :
    (srv[h].pc = "responded" /\ srv[h].route # "history"
       /\ Admitted(srv[h].request)
       /\ ~WellShaped(srv[h].route, srv[h].request)) =>
      srv[h].response.status \in 400..499

\* C19 as stated: when the visualization route has answered an admitted,
\* well-shaped request, exactly one prompt-log write has been attempted.
C19_ExactlyOneLogWrite ==
  \A h \in Handlers :
    (srv[h].pc = "responded" /\ srv[h].route = "visualization"
       /\ Admitted(srv[h].request)
       /\ WellShaped(srv[h].route, srv[h].request)) =>
      srv[h].logAttempts = 1

\* the step in which prisma.promptLog.create of handler h settles and the
\* route answers
LogSettles(h) == srv[h].pc = "logging" /\ srv'[h].pc = "responded"

\* C20: whether the prompt-log write succeeds or throws, the response of the
\* visualization route (status, code, error) is the one it gives when the
\* write succeeds.
C20_LogFailureInvisible ==
  [][\A h \in Handlers :
       LogSettles(h) =>
         /\ srv'[h].response = ResponseAfterLog(srv[h], TRUE)
         /\ srv'[h].response = srv[h].pending]_vars

\* a write has failed and the route has answered 200 with the code
C20_Witness ==
  \E h \in Handlers :
    /\ srv[h].pc = "responded"
    /\ srv[h].logFailed
    /\ srv[h].response.status = 200
    /\ srv[h].response.code = CompleteHtml


\* C21 as stated: the text of an error thrown by the generator is never
\* exposed: it is not the error of any response of the routes, and it is
\* not the errorMessage of any record that the prompt-history listing
\* returns.
C21_UpstreamTextNeverExposed ==
  \A h \in Handlers :
    srv[h].pc = "responded" =>
      /\ srv[h].response.error # UpstreamError
      /\ \A i \in 1..Len(srv[h].response.logs) :
           srv[h].response.logs[i].errorMessage # UpstreamError

\* C22: when the fence-stripped output of the generator is not empty but
\* fails the structure check, the route answers 200 with the whole output as
\* code and the incompleteness warning; the client, given such a response,
\* displays the code as the visualization and the warning as a warning, and
\* sets no error.
C22_IncompleteIsWarningNotError ==
  /\ [](\A out \in GenOutcomes :
          LET code == StripMarkdownFences(out.text) IN
            (out.kind = "text" /\ code # <<>> /\ ~IsLikelyCompleteHtml(code)) =>
              /\ VisualizationResponse(code).status = 200
              /\ VisualizationResponse(code).code = code
              /\ VisualizationResponse(code).error = WarnIncomplete)
  /\ [][\A r \in Requests, out \in CompileOutcomes :
          (out.kind = "response" /\ out.ok /\ out.code # ""
             /\ out.error = WarnIncomplete /\ CompileResponse(r, out)) =>
            /\ generatedHTML' = out.code
            /\ apiWarning' = WarnIncomplete
            /\ error' = NullStr
            /\ Len(conversations') >= 1]_vars

\* the visualization is displayed together with the warning
C22_Witness ==
  /\ generatedHTML = "H2"
  /\ apiWarning = WarnIncomplete
  /\ error = NullStr
  /\ ~isLoading

\* the messages of all conversations
RECURSIVE MessageCount(_)
MessageCount(convs) ==
  IF convs = <<>> THEN 0
  ELSE Len(Head(convs).messages) + MessageCount(Tail(convs))

\* a response with code is handled: a generation succeeds
GenerationSucceeds ==
  \E r \in Requests, out \in CompileOutcomes :
    out.kind = "response" /\ out.ok /\ out.code # "" /\ CompileResponse(r, out)

\* C26: conversations are append-only.  In every step each conversation is
\* still there with its id, title and creation time, and its messages are
\* unchanged at their positions; a successful generation adds exactly one
\* message, as the last message of one conversation (an existing one or a
\* new one that holds only it), and no other step adds a message; the title
\* of a conversation is the prompt of its first message cut to 50
\* characters.
C26_ConversationsAppendOnly ==
  /\ [](\A i \in 1..Len(conversations) :
          LET conv == conversations[i]
              first == conv.messages[1].prompt IN
            /\ Len(conv.messages) >= 1
            /\ Len(conv.title) <= 50
            /\ conv.title = SubSeq(first, 1, Len(conv.title))
            /\ Len(conv.title) < 50 => conv.title = first)
  /\ [][/\ \A i \in 1..Len(conversations) :
            \E j \in 1..Len(conversations') :
              /\ conversations'[j].id = conversations[i].id
              /\ conversations'[j].title = conversations[i].title
              /\ conversations'[j].createdAt = conversations[i].createdAt
              /\ Len(conversations'[j].messages)
                   >= Len(conversations[i].messages)
              /\ SubSeq(conversations'[j].messages, 1,
                        Len(conversations[i].messages))
                   = conversations[i].messages
         /\ Len(conversations') \in {Len(conversations), Len(conversations) + 1}
         /\ Len(conversations') = Len(conversations) + 1 =>
              Len(conversations'[1].messages) = 1
         /\ MessageCount(conversations')
              = MessageCount(conversations)
                  + (IF GenerationSucceeds THEN 1 ELSE 0)]_vars

\* a conversation made from the long prompt holds two messages and its
\* title is the first 50 characters of the prompt
C26_Witness ==
  \E i \in 1..Len(conversations) :
    /\ Len(conversations[i].messages) = 2
    /\ Len(conversations[i].messages[1].prompt) = 51
    /\ Len(conversations[i].title) = 50

\* the prompt-history route has answered the request of handler h
Listing(h) == srv[h].pc = "responded" /\ srv[h].route = "history"

\* the step in which the prompt-history route answers the request of
\* handler h
ListingAnswered(h) ==
  /\ srv[h].route = "history"
  /\ srv[h].pc \in {"session", "querying"}
  /\ srv'[h].pc = "responded"

\* a query parameter that is a count: absent, or one decimal digit, which
\* blanks may precede
IsCount(text) ==
  \/ text = <<>>
  \/ /\ \E n \in 0..9 : DigitChars[n + 1] = text[Len(text)]
     /\ \A i \in 1..(Len(text) - 1) : text[i] = " "

\* the number a query parameter that is a count stands for, the fallback
\* when it is absent
QueryNumber(text, fallback) ==
  IF text = <<>> THEN fallback
  ELSE CHOOSE n \in 0..9 : DigitChars[n + 1] = text[Len(text)]

\* the rows of the table owned by a user
OwnedRows(user) == {k \in 1..Len(promptLog) : promptLog[k].userId = user}

\* C23 as stated: stripMarkdownFences is idempotent on every output with
\* zero, one or two pairs of fence markers, with or without language tag:
\* stripping the stripped code again gives the same code.
C23_StripIdempotent ==
  (san.pc \in {"code", "checked"} /\ Len(san.src.tags) <= 2) =>
    StripMarkdownFences(san.code) = san.code

\* C24 as stated: isLikelyCompleteHtml is true exactly when the text has the
\* doctype and the opening and closing tags of html, head and body, in any
\* letter case and whatever the attributes and the whitespace between the
\* tags; it is false as soon as one of them is absent.
C24_TrueIffAllTagsPresent ==
  san.pc = "checked" => (san.validHtml <=> san.src.mask = 1..7)

\* C24, amended: isLikelyCompleteHtml is true exactly when the lower-cased
\* text contains the seven substrings it searches for.  In the outputs that
\* is the case when the doctype and all six tags are present, and also when
\* only the opening tag of head is absent and a header element is present
\* (its opening tag begins with the substring searched for head); without
\* the header element, removing only the opening tag of head gives false.
C24_TrueIffSubstringsPresent ==
  san.pc = "checked" =>
    (san.validHtml <=>
       \/ san.src.mask = 1..7
       \/ san.src.mask = (1..7) \ {3} /\ san.src.header)

\* a document in mixed case with attributes was accepted, inside a fence
C24_Witness ==
  /\ san.pc = "checked"
  /\ san.validHtml
  /\ san.src.attrs
  /\ san.src.mask = 1..7
  /\ Len(san.src.tags) = 1

C25_WitnessOtherOwner ==
  \E h \in Handlers :
    /\ Listing(h)
    /\ srv[h].response.status = 200
    /\ Len(promptLog) = 2
    /\ Cardinality(OwnedRows(srv[h].request.session)) = 1
    /\ Len(srv[h].response.logs) = 1


\* the step in which the visualization route writes its record and answers
Logs(h) == LogSettles(h) /\ Len(promptLog') = Len(promptLog) + 1

\* C27 as stated: the status of the written record agrees with the result
\* the route returns: it is VISUALIZATION_COMPLETE exactly when the route
\* returns a non-empty code with status 200 (a structural warning included),
\* and FAILED exactly when the route returns an empty code.
C27_StatusAgreesWithResult ==
  [][\A h \in Handlers :
       Logs(h) =>
         LET row == promptLog'[Len(promptLog')] IN
           /\ row.status = "VISUALIZATION_COMPLETE"
                <=> (srv'[h].response.status = 200
                       /\ srv'[h].response.code # <<>>)
           /\ row.status = "FAILED" <=> srv'[h].response.code = <<>>]_vars

\* C28 as stated: at the end of a stream whose text goes to the compiler,
\* the narrativeGuide sent to the compiler is the narrativeGuide the decoder
\* has surfaced to the page (both absent, or the same value), for every
\* stream text, text that wraps the JSON in other characters included.
C28_CompilerGuideIsSurfacedGuide ==
  [][\A r \in Requests :
       (EndOfStream(r) /\ Len(posts') = Len(posts) + 1) =>
         posts'[Len(posts')].narrativeGuide = narrativeGuide']_vars

\* C29 as stated: whenever a visualization is displayed (generatedHTML is
\* not null), a current conversation is selected and the html of its last
\* message is the displayed visualization.
C29_DisplayedIsLastOfCurrent ==
  generatedHTML # NullStr =>
    /\ currentConversationId # NullId
    /\ \E i \in 1..Len(conversations) :
         /\ conversations[i].id = currentConversationId
         /\ conversations[i].messages[Len(conversations[i].messages)].html
              = generatedHTML

\* C30 as stated: the prompt field of the written record is the prompt of
\* the user (up to surrounding whitespace): for a request with a non-empty
\* prompt, with or without instructions, the record has that prompt, and
\* the instructions text is not stored in the prompt field.
C30_PromptFieldIsUserPrompt ==
  [][\A h \in Handlers :
       (Logs(h) /\ NonEmptyString(srv[h].request.body.prompt)) =>
         promptLog'[Len(promptLog')].prompt
           = Trim(srv[h].request.body.prompt.v)]_vars

====
